---- MODULE Spec2Model ----
(***************************************************************************)
(* Verification model of pipecat-client-web-transports.                    *)
(*                                                                         *)
(* Part 1: ReconnectingWebSocket (lib/websocket-utils/                     *)
(* reconnectingWebSocket.ts).  The channel object, every rWebSocket it     *)
(* has created, the armed timers and the clock are the state.  Every       *)
(* method is an operator from a channel record to a channel record, so a   *)
(* handler that calls other methods is the composition of their operators  *)
(* and one action is one whole handler run (JavaScript runs a handler to   *)
(* completion; none of the methods suspends before its last statement).    *)
(***************************************************************************)
EXTENDS Integers, Sequences, FiniteSets, TLC

\* ---------------------------------------------------------------- bounds
MaxSockets == 2        \* rWebSocket objects created over the channel's life
TimedSockets == 2      \* the same, where the clock runs
MaxTime == 1           \* clock advances the model follows
MaxFailures == 2       \* 'reconnect-failed' events followed, backoff alone

\* ------------------------------------------------------ program constants
KEEP_ALIVE_INTERVAL == 5000
KEEP_ALIVE_TIMEOUT == 15000
DEFAULT_RECONNECT_ATTEMPTS == 2
MAX_RECONNECT_ATTEMPTS == 10
DEFAULT_RECONNECT_INTERVAL == 1000
MAX_RECONNECT_INTERVAL == 30000
\* DEFAULT_RECONNECT_DECAY = 1.5, kept exact as the fraction 3/2
DecayNum == 3
DecayDen == 2

\* Math.pow on small integers
RECURSIVE Pow(_, _)
Pow(b, n) == IF n = 0 THEN 1 ELSE b * Pow(b, n - 1)

\* Waits are held in units of 1/Scale ms: reconnectInterval * 1.5^n is the
\* exact rational interval * 3^n / 2^n (the double computation is exact for
\* these magnitudes), and n < MAX_RECONNECT_ATTEMPTS - 1.
Scale == Pow(DecayDen, MAX_RECONNECT_ATTEMPTS)

\* Date.now() of the first state; far from 0 as wall-clock time is
Epoch == 100000
\* one clock advance, in ms
TimeStep == 16000
\* an unassigned (declared only) number field
Undefined == -1

Null == 0

VARIABLES
    ws,                       \* this._ws: Null or the id of an rWebSocket
    socks,                    \* every rWebSocket created by connect()
    disconnected,             \* this._disconnected
    keepIntervalID,           \* this._keepIntervalID: Null or a timer
    keepTimers,               \* armed setInterval timers
    connectionTimeoutID,      \* this._connectionTimeoutID
    connTimers,               \* armed connection-timeout timers
    reconnectTimeoutID,       \* this._reconnectTimeoutID
    reconnectTimers,          \* armed reconnect timers
    lastTimeout,              \* delay of the last reconnect timer armed
    reconnectAttempts,        \* this._reconnectAttempts
    allowedReconnectAttempts, \* this._allowedReconnectAttempts
    reconnectInterval,        \* this._reconnectInterval
    keepAliveTimeout,         \* this._keepAliveTimeout
    keepAliveInterval,        \* this._keepAliveInterval
    shouldRetryFn,            \* this._shouldRetryFn: "null" or what it returns
    lastMsgRecvTime,          \* this._lastMsgRecvTime
    lastMsgSendTime,          \* this._lastMsgSendTime
    now,                      \* Date.now()
    wire,                     \* frames the last handler gave WebSocket.send
    emitted,                  \* events emitted by the last handler, in order
    settled,                  \* promises the last handler settled, and how
    op,                       \* the last handler that ran
    drops,                    \* history: unexpected closes of opened sockets
    failures                  \* history: 'reconnect-failed' events emitted

chanVars == <<ws, socks, disconnected, keepIntervalID, keepTimers,
              connectionTimeoutID, connTimers, reconnectTimeoutID,
              reconnectTimers, lastTimeout, reconnectAttempts,
              allowedReconnectAttempts, reconnectInterval, keepAliveTimeout,
              keepAliveInterval, shouldRetryFn, lastMsgRecvTime,
              lastMsgSendTime, now, wire, emitted, settled, op,
              drops,
              failures>>

\* Part 2: the transports and the media manager they drive
VARIABLES
    transport,                \* the Transport class of the object
    state,                    \* this._state
    pc,                       \* this.pc / this._openai_cxn is set
    micEnabled,               \* DailyMediaManager._micEnabled
    mmInitialized,            \* DailyMediaManager._initialized
    mmConnected,              \* DailyMediaManager._connected
    connectResolve,           \* DailyMediaManager._connectResolve is set
    processor,                \* MediaStreamRecorder.processor is set
    recording,                \* MediaStreamRecorder.recording
    initializeCall,           \* who awaits mediaManager.initialize()
    connectCall,              \* where the connect() call is suspended
    disconnectCall,           \* where the disconnect() call is suspended
    channelTimeout,           \* the channel's connection timeout is armed
    channel,                  \* readyState of this.dc / _ws / _openai_channel
    aborted,                  \* abortController.signal.aborted of connect()
    sendResult,               \* what sendMessage() did, if the last step was one
    settledCalls,             \* promises the last step settled
    called                    \* callbacks the last step invoked

transVars == <<transport, state, pc, micEnabled, mmInitialized, mmConnected,
               connectResolve, processor, recording, initializeCall,
               connectCall, disconnectCall, channelTimeout, channel,
               aborted, sendResult, settledCalls, called>>

\* The MediaStreamRecorder's chunker (mediastream_recorder.js); it shares
\* processor and recording with the transports' recorder above.
VARIABLES
    debug,                    \* this.debug
    chunkProcessorSize,       \* this._chunkProcessorSize (0: unset or 0)
    chunkProcessorBuffer,     \* this._chunkProcessorBuffer, as captured bytes
    eventCall,                \* the call suspended in _event(), or "idle"
    calledFrom,               \* the status in which that call was made
    capturing,                \* the worklet is between 'start' and 'stop'
    captured,                 \* bytes received from the worklet this session
    delivered,                \* buffers handed to the chunk callback
    lastCall                  \* the call the last step finished, if any

recVars == <<debug, chunkProcessorSize, chunkProcessorBuffer, eventCall,
             calledFrom, capturing, captured, delivered, lastCall>>

\* The SmallWebRTCTransport's negotiator (smallWebRTCTransport.ts); it shares
\* state, pc, channel, connectCall, disconnectCall and the callbacks with the
\* transports above.
VARIABLES
    pcs,                      \* every RTCPeerConnection created so far
    peer,                     \* this.pc as an index of pcs, or Null
    pc_id,                    \* this.pc_id
    reconnectionAttempts,     \* this.reconnectionAttempts
    isReconnecting,           \* this.isReconnecting
    fetches,                  \* the negotiate() calls awaiting their fetch
    retryTimers,              \* pending setTimeout(attemptReconnection, 2000)
    stops,                    \* the stop() calls awaiting the media manager
    offered,                  \* an offer was sent in this session
    firstResponse,            \* the id in this session's first answer
    offersSent,               \* offers sent so far
    negOps,                   \* what the last step did
    sent,                     \* the pc_id in the offer the last step sent
    dcKeepAliveInterval,      \* this.keepAliveInterval: the data channel
                              \* (by its pc) whose interval it names, or Null
    pings,                    \* the data channels with a ping interval set
    dcClosing                 \* closed data channels whose 'close' event
                              \* has not been delivered

negVars == <<pcs, peer, pc_id, reconnectionAttempts, isReconnecting, fetches,
             retryTimers, stops, offered, firstResponse, offersSent, negOps,
             sent, dcKeepAliveInterval, pings, dcClosing>>

\* The messages the transports receive from the remote side
VARIABLES
    received,                 \* the message the last step received, if any
    forwarded                 \* this._onMessage() calls of the last step

msgVars == <<received, forwarded>>

\* The DailyTransport (its call object is this._daily); it shares state,
\* connectCall, disconnectCall, aborted and the callbacks with the transports
\* above.
VARIABLES
    listeners,                \* attachEventListeners() registrations on _daily
    readyHandlers,            \* readyHandler listeners on 'track-started'
    meeting,                  \* the call object's meeting state
    initialized,              \* initialize() was called
    remoteTracks,             \* remote 'track-started' events of this meeting
    readySent,                \* client-ready messages sent in this meeting
    readyCalled,              \* sendReadyMessage() was called for this connect()
    dispatched,               \* onTrackStarted calls of the last step
    dailyOp                   \* the operation of the last step

dailyVars == <<listeners, readyHandlers, meeting, initialized, remoteTracks,
               readySent, readyCalled, dispatched, dailyOp>>

\* The codec filter of the SmallWebRTCTransport's offers (sdpFilterCodec)
VARIABLES
    realSdp,                  \* the lines of the offer's SDP
    sdpKind,                  \* the kind to filter
    sdpCodec,                 \* the codec to keep
    sdp                       \* the lines sdpFilterCodec() returned, if it ran

sdpVars == <<realSdp, sdpKind, sdpCodec, sdp>>

\* The MediaStreamRecorder under callers that do not wait for each other
\* (mediastream_recorder.js, dailyMediaManager.ts)
VARIABLES
    msrProcessor,             \* this.processor: an AudioWorkletNode, or Null
    msrRecording,             \* this.recording
    msrCreated,               \* AudioWorkletNodes created so far
    msrLive,                  \* those still connected to their source
    msrCalls,                 \* the suspended calls, with what their caller
                              \* does when they return
    msrTracks                 \* 'track-started' events handled so far

msrVars == <<msrProcessor, msrRecording, msrCreated, msrLive, msrCalls,
             msrTracks>>

\* The playback of the GeminiLiveWebsocketTransport (part_009, part_003)
VARIABLES
    botIsSpeaking,            \* this._botIsSpeaking
    botResponseID,            \* this._botResponseID
    buffered,                 \* the calls of bufferBotAudio() so far, each
                              \* with the decoded audio parts of its message
                              \* and the server's turn it came in
    serverTurn                \* the number of the bot turn the server is in

playVars == <<botIsSpeaking, botResponseID, buffered, serverTurn>>

NoPlay ==
    /\ botIsSpeaking = FALSE
    /\ botResponseID = 0
    /\ buffered = <<>>
    /\ serverTurn = 1

\* The local audio the DailyTransport buffers until the bot is ready
\* (part_006)
VARIABLES
    audioQueue,               \* this._audioQueue: the buffers, by the order
                              \* of their capture
    appMessages,              \* the messages given to sendAppMessage()
    qState,                   \* this.state
    qRecorder,                \* the recorder: "ended", "beginning",
                              \* "recording", or "stopping" once end() waits
    qCaptured                 \* chunks given to handleUserAudioStream()

queueVars == <<audioQueue, appMessages, qState, qRecorder, qCaptured>>

NoQueue ==
    /\ audioQueue = <<>>
    /\ appMessages = <<>>
    /\ qState = "connected"
    /\ qRecorder = "ended"
    /\ qCaptured = 0

extVars == <<msrVars, playVars, queueVars>>

NoMsr ==
    /\ msrProcessor = Null
    /\ msrRecording = FALSE
    /\ msrCreated = 0
    /\ msrLive = {}
    /\ msrCalls = <<>>
    /\ msrTracks = 0

NoExt == NoMsr /\ NoPlay /\ NoQueue

vars == <<chanVars, transVars, recVars, negVars, msgVars, dailyVars,
          sdpVars, extVars>>

\* The channel, its sockets and its environment as one record
Chan ==
    [ws |-> ws, socks |-> socks, disconnected |-> disconnected,
     keepIntervalID |-> keepIntervalID, keepTimers |-> keepTimers,
     connectionTimeoutID |-> connectionTimeoutID, connTimers |-> connTimers,
     reconnectTimeoutID |-> reconnectTimeoutID,
     reconnectTimers |-> reconnectTimers, lastTimeout |-> lastTimeout,
     reconnectAttempts |-> reconnectAttempts,
     allowedReconnectAttempts |-> allowedReconnectAttempts,
     reconnectInterval |-> reconnectInterval,
     keepAliveTimeout |-> keepAliveTimeout,
     keepAliveInterval |-> keepAliveInterval,
     shouldRetryFn |-> shouldRetryFn,
     lastMsgRecvTime |-> lastMsgRecvTime, lastMsgSendTime |-> lastMsgSendTime,
     now |-> now, wire |-> 0, emitted |-> <<>>, settled |-> {},
     op |-> "none", drops |-> drops, failures |-> failures]

\* The channel's next state is the record c
ChanAssign(c) ==
    /\ ws' = c.ws
    /\ socks' = c.socks
    /\ disconnected' = c.disconnected
    /\ keepIntervalID' = c.keepIntervalID
    /\ keepTimers' = c.keepTimers
    /\ connectionTimeoutID' = c.connectionTimeoutID
    /\ connTimers' = c.connTimers
    /\ reconnectTimeoutID' = c.reconnectTimeoutID
    /\ reconnectTimers' = c.reconnectTimers
    /\ lastTimeout' = c.lastTimeout
    /\ reconnectAttempts' = c.reconnectAttempts
    /\ allowedReconnectAttempts' = c.allowedReconnectAttempts
    /\ reconnectInterval' = c.reconnectInterval
    /\ keepAliveTimeout' = c.keepAliveTimeout
    /\ keepAliveInterval' = c.keepAliveInterval
    /\ shouldRetryFn' = c.shouldRetryFn
    /\ lastMsgRecvTime' = c.lastMsgRecvTime
    /\ lastMsgSendTime' = c.lastMsgSendTime
    /\ now' = c.now
    /\ wire' = c.wire
    /\ emitted' = c.emitted
    /\ settled' = c.settled
    /\ op' = c.op
    /\ drops' = c.drops
    /\ failures' = c.failures

\* The next state is the record c
Becomes(c) ==
    /\ ChanAssign(c)
    /\ UNCHANGED <<transVars, recVars, negVars, msgVars, dailyVars,
                   sdpVars, extVars>>

\* class rWebSocket: the flags of a fresh instance, plus the readyState of
\* the WebSocket it wraps and the promise its connect() call returned.
\* closeCalled is history: close() was called while the socket was connecting.
NoSocket ==
    [readyState |-> "NONE", closedManually |-> FALSE, errored |-> FALSE,
     rejected |-> FALSE, timed_out |-> FALSE, initialConnectionOk |-> FALSE,
     promise |-> "none", closeCalled |-> FALSE]

NewSocket ==
    [NoSocket EXCEPT !.readyState = "CONNECTING", !.promise = "pending"]

\* resolve()/reject() of the promise of socket s: only the first call
\* settles it
Settle(c, s, outcome) ==
    IF c.socks[s].promise = "pending"
    THEN [c EXCEPT !.socks[s].promise = outcome,
                   !.settled = @ \cup {<<s, outcome>>}]
    ELSE c

\* WebSocket.close(): a socket not yet closed starts its closing handshake
WsClose(rs) == IF rs \in {"CONNECTING", "OPEN"} THEN "CLOSING" ELSE rs

\* EventEmitter.emit
Emit(c, e) == [c EXCEPT !.emitted = Append(@, e)]

\* ------------------------------------------------------------ the setters
SetMaxReconnectAttempts(attempts) ==
    IF attempts > 0 /\ attempts < MAX_RECONNECT_ATTEMPTS
    THEN attempts
    ELSE DEFAULT_RECONNECT_ATTEMPTS

SetReconnectInterval(interval) ==
    IF interval < MAX_RECONNECT_INTERVAL THEN interval
    ELSE MAX_RECONNECT_INTERVAL

\* --------------------------------------------------------- timer helpers
SetConnectionTimeout(c, s) ==
    [c EXCEPT !.connTimers = @ \cup {s}, !.connectionTimeoutID = s]

ClearConnectionTimeout(c) ==
    [c EXCEPT !.connTimers = @ \ {c.connectionTimeoutID},
              !.connectionTimeoutID = Null]

ClearReconnectTimeout(c) ==
    [c EXCEPT !.reconnectTimers = @ \ {c.reconnectTimeoutID},
              !.reconnectTimeoutID = Null]

ClearKeepAliveInterval(c) ==
    IF c.keepIntervalID # Null
    THEN [c EXCEPT !.keepTimers = @ \ {c.keepIntervalID},
                   !.keepIntervalID = Null]
    ELSE c

\* ----------------------------------------------------------- the backoff
\* BackoffTimeout without the clamp to the maximum interval
BackoffTimeout_Unclamped(interval, attempts) ==
    interval * Pow(DecayNum, attempts) * (Scale \div Pow(DecayDen, attempts))

\* reconnectInterval * Math.pow(reconnectDecay, reconnectAttempts), then the
\* clamp; in units of 1/Scale ms
BackoffTimeout(interval, attempts) ==
    LET timeout == interval * Pow(DecayNum, attempts)
                       * (Scale \div Pow(DecayDen, attempts))
    IN  IF timeout > MAX_RECONNECT_INTERVAL * Scale
        THEN MAX_RECONNECT_INTERVAL * Scale
        ELSE timeout

\* RetryFailedConnection arming a timer whether or not one is pending
RetryFailedConnection_NoPendingCheck(c) ==
    IF c.reconnectAttempts < c.allowedReconnectAttempts
    THEN [c EXCEPT
            !.lastTimeout =
                BackoffTimeout(c.reconnectInterval, c.reconnectAttempts),
            !.reconnectAttempts = @ + 1,
            !.reconnectTimeoutID = c.reconnectAttempts + 1,
            !.reconnectTimers = @ \cup {c.reconnectAttempts + 1}]
    ELSE [Emit(c, "reconnect-failed") EXCEPT !.failures = @ + 1]

RetryFailedConnection(c) ==
    IF c.reconnectAttempts < c.allowedReconnectAttempts
    THEN IF c.reconnectTimeoutID # Null
         THEN c
         ELSE [c EXCEPT
                 !.lastTimeout =
                     BackoffTimeout(c.reconnectInterval, c.reconnectAttempts),
                 !.reconnectAttempts = @ + 1,
                 !.reconnectTimeoutID = c.reconnectAttempts + 1,
                 !.reconnectTimers = @ \cup {c.reconnectAttempts + 1}]
    ELSE [Emit(c, "reconnect-failed") EXCEPT !.failures = @ + 1]

\* the value of the shouldRetry expression of _closeSocket
ShouldRetry(c) ==
    /\ c.ws # Null
    /\ c.socks[c.ws].initialConnectionOk
    /\ c.shouldRetryFn # "null"
    /\ c.shouldRetryFn = "true"

CloseSocket(c) ==
    LET c1 == [ClearKeepAliveInterval(c) EXCEPT !.lastMsgRecvTime = 0]
        c2 == IF c1.ws # Null
              THEN [c1 EXCEPT
                      !.socks[c1.ws].closedManually = TRUE,
                      !.socks[c1.ws].readyState = WsClose(@)]
              ELSE c1
        c3 == [c2 EXCEPT !.ws = Null]
    IN  IF ShouldRetry(c2)
        THEN RetryFailedConnection(Emit(c3, "reconnecting"))
        ELSE c3

\* ------------------------------------------------- connect() and listeners
\* connect(): the executor of the returned promise, up to the listeners
Connect(c, s) ==
    LET c1 == ClearReconnectTimeout([c EXCEPT !.disconnected = FALSE])
        c2 == [c1 EXCEPT !.socks[s] = NewSocket]
    IN  SetConnectionTimeout(c2, s)

\* CloseListener retrying every unexpected close, opened or not
CloseListener_RetriesUnopened(c, s) ==
    LET c1 == [c EXCEPT !.socks[s].timed_out = FALSE]
        c2 == IF ~c1.socks[s].closedManually
              THEN Emit([CloseSocket(c1) EXCEPT !.drops = @ + 1], "close")
              ELSE c1
    IN  IF /\ ~c2.socks[s].closedManually
           /\ (c2.socks[s].errored \/ c2.socks[s].timed_out)
           /\ ~c2.socks[s].rejected
        THEN Settle([c2 EXCEPT !.socks[s].rejected = TRUE], s,
                    "WEBSOCKET_ERROR")
        ELSE c2

\* ws.addEventListener("close", ...)
CloseListener(c, s) ==
    LET c1 == [c EXCEPT !.socks[s].timed_out = FALSE]
        c2 == IF ~c1.socks[s].closedManually /\ c1.socks[s].initialConnectionOk
              THEN Emit([CloseSocket(c1) EXCEPT !.drops = @ + 1], "close")
              ELSE c1
    IN  IF /\ ~c2.socks[s].closedManually
           /\ (c2.socks[s].errored \/ c2.socks[s].timed_out)
           /\ ~c2.socks[s].rejected
        THEN Settle([c2 EXCEPT !.socks[s].rejected = TRUE], s,
                    "WEBSOCKET_ERROR")
        ELSE c2

\* ws.addEventListener("open", ...)
OpenListener(c, s) ==
    LET c1 == ClearConnectionTimeout(c)
    IN  IF c1.socks[s].rejected \/ c1.socks[s].timed_out
        THEN c1
        ELSE IF c1.socks[s].closedManually \/ (c1.ws # Null /\ c1.ws # s)
        THEN Settle([c1 EXCEPT !.socks[s].rejected = TRUE,
                               !.socks[s].readyState = WsClose(@)], s,
                    "SIG_CONNECTION_CANCELED")
        ELSE LET c2 == [c1 EXCEPT !.socks[s].initialConnectionOk = TRUE,
                                  !.lastMsgRecvTime = c1.now]
                 c3 == IF c2.keepAliveInterval # 0
                       THEN [c2 EXCEPT !.keepIntervalID = s,
                                       !.keepTimers = @ \cup {s}]
                       ELSE c2
             IN  Settle(Emit([c3 EXCEPT !.ws = s], "open"), s, "resolved")

\* ws.addEventListener("error", ...)
ErrorListener(c, s) == [c EXCEPT !.socks[s].errored = TRUE]

\* _handleMessage
HandleMessage(c) == Emit([c EXCEPT !.lastMsgRecvTime = c.now], "message")

\* the WebSocket this._ws wraps is open
WsIsOpen(c) == c.ws # Null /\ c.socks[c.ws].readyState = "OPEN"

\* CheckSocketHealthAndSendKeepAlive without the test of the last send
CheckSocketHealthAndSendKeepAlive_NoSendCheck(c) ==
    IF ~WsIsOpen(c)
    THEN c
    ELSE IF c.keepAliveTimeout = 0 \/ c.keepAliveInterval = 0
    THEN c
    ELSE IF /\ c.lastMsgRecvTime # Undefined
            /\ c.now - c.lastMsgRecvTime > c.keepAliveTimeout
    THEN CloseSocket(c)
    ELSE Emit(c, "keep-alive")

CheckSocketHealthAndSendKeepAlive(c) ==
    IF ~WsIsOpen(c)
    THEN c
    ELSE IF c.keepAliveTimeout = 0 \/ c.keepAliveInterval = 0
    THEN c
    ELSE IF /\ c.lastMsgRecvTime # Undefined
            /\ c.now - c.lastMsgRecvTime > c.keepAliveTimeout
    THEN CloseSocket(c)
    ELSE IF /\ c.lastMsgSendTime # Undefined
            /\ c.now - c.lastMsgSendTime < c.keepAliveInterval
    THEN c
    ELSE Emit(c, "keep-alive")

\* the callback of setConnectionTimeout
ConnectionTimedOut(c) ==
    CloseSocket(ClearConnectionTimeout(Emit(c, "connection-timeout")))

\* Send without the test that the socket is open
Send_Unguarded(c) == [c EXCEPT !.lastMsgSendTime = c.now, !.wire = 1]

\* send(data)
Send(c) ==
    IF WsIsOpen(c)
    THEN [c EXCEPT !.lastMsgSendTime = c.now, !.wire = 1]
    ELSE c

\* close()
Close(c) ==
    CloseSocket(ClearReconnectTimeout([c EXCEPT !.disconnected = TRUE]))

\* ------------------------------------------------------------------ Init
\* init(), then the application's configuration through the setters
AttemptInputs == {0, 1}
RetryFns == {"null", "true", "false"}

ChanInitWith(maxSockets, attempts, intervals, retryFns, keepAlive) ==
    /\ ws = Null
    /\ socks = [s \in 1..maxSockets |-> NoSocket]
    /\ disconnected = FALSE
    /\ keepIntervalID = Null
    /\ keepTimers = {}
    /\ connectionTimeoutID = Null
    /\ connTimers = {}
    /\ reconnectTimeoutID = Null
    /\ reconnectTimers = {}
    /\ lastTimeout = Undefined
    /\ reconnectAttempts = 0
    /\ allowedReconnectAttempts \in
           {SetMaxReconnectAttempts(a) : a \in attempts}
    /\ reconnectInterval \in {SetReconnectInterval(i) : i \in intervals}
    /\ keepAliveTimeout = KEEP_ALIVE_TIMEOUT
    /\ keepAliveInterval = keepAlive
    /\ shouldRetryFn \in retryFns
    /\ lastMsgRecvTime = Undefined
    /\ lastMsgSendTime = Undefined
    /\ now = Epoch
    /\ wire = 0
    /\ emitted = <<>>
    /\ settled = {}
    /\ op = "init"
    /\ drops = 0
    /\ failures = 0

\* init() with the keep-alive interval it sets
ChanInit(maxSockets, attemptInputs, intervalInputs, retryFns) ==
    ChanInitWith(maxSockets, attemptInputs, intervalInputs, retryFns,
                 KEEP_ALIVE_INTERVAL)

\* --------------------------------------------------------------- actions
\* the rWebSocket objects the behaviour may create
SockIds == DOMAIN socks

\* After its 'close' event an rWebSocket gets no further event and nothing
\* reads its flags again (unless this._ws still holds it): what is kept of
\* it is whether its connect() promise was ever settled.  The outcome of the
\* promise is in 'settled' for the handler that settled it.
Collected(c, s) ==
    IF c.ws # s
    THEN [c EXCEPT !.socks[s] =
            [NoSocket EXCEPT !.readyState = "CLOSED",
                             !.promise = IF c.socks[s].promise = "pending"
                                         THEN "pending" ELSE "settled"]]
    ELSE c

\* the id the next rWebSocket gets
Fresh(s) ==
    /\ socks[s].readyState = "NONE"
    /\ \A t \in SockIds : t < s => socks[t].readyState # "NONE"

Ran(c, name) == Becomes([c EXCEPT !.op = name])

\* the application calls connect()
AppConnect ==
    \E s \in SockIds : Fresh(s) /\ Ran(Connect(Chan, s), "connect")

\* history: the attempts in flight when close() is called
InFlightMarked(c) ==
    [c EXCEPT !.socks = [s \in DOMAIN @ |->
        IF @[s].readyState = "CONNECTING"
        THEN [@[s] EXCEPT !.closeCalled = TRUE] ELSE @[s]]]

\* the application calls close()
AppClose ==
    /\ TRUE
    /\ Ran(InFlightMarked(Close(Chan)), "close")

\* the application calls send(data)
AppSend ==
    /\ TRUE
    /\ Ran(Send(Chan), "send")

\* the browser reports the handshake of socket s done: 'open'
WsOpened ==
    \E s \in SockIds :
        /\ socks[s].readyState = "CONNECTING"
        /\ Ran(OpenListener([Chan EXCEPT !.socks[s].readyState = "OPEN"], s),
               "ws-open")

\* the browser fails the connection of socket s: 'error', then 'close'
WsFailed ==
    \E s \in SockIds :
        /\ socks[s].readyState \in {"CONNECTING", "OPEN", "CLOSING"}
        /\ Ran(Collected(CloseListener(
                 ErrorListener([Chan EXCEPT !.socks[s].readyState = "CLOSED"],
                               s), s), s),
               "ws-fail")

\* the connection of socket s closes after it had opened: 'close'
WsClosed ==
    \E s \in SockIds :
        /\ socks[s].readyState \in {"OPEN", "CLOSING"}
        /\ Ran(Collected(CloseListener(
                 [Chan EXCEPT !.socks[s].readyState = "CLOSED"], s), s),
               "ws-close")

\* a frame arrives on socket s: 'message'
WsMessage ==
    \E s \in SockIds :
        /\ socks[s].readyState = "OPEN"
        /\ Ran(HandleMessage(Chan), "ws-message")

\* a connection-timeout timer fires
ConnectionTimeoutFired ==
    \E t \in connTimers :
        Ran(ConnectionTimedOut([Chan EXCEPT !.connTimers = @ \ {t}]),
            "connection-timeout")

\* a reconnect timer fires: () => this.connect()
ReconnectTimeoutFired ==
    \E t \in reconnectTimers : \E s \in SockIds :
        /\ Fresh(s)
        /\ Ran(Connect([Chan EXCEPT !.reconnectTimers = @ \ {t}], s),
               "reconnect")

\* a keep-alive interval fires
KeepAliveFired ==
    \E t \in keepTimers :
        Ran(CheckSocketHealthAndSendKeepAlive(Chan), "keep-alive-tick")

\* time passes
Tick ==
    /\ now < Epoch + MaxTime * TimeStep
    /\ Ran([Chan EXCEPT !.now = @ + TimeStep], "tick")

ChanNext ==
    \/ AppConnect
    \/ AppClose
    \/ WsOpened
    \/ WsFailed
    \/ WsClosed
    \/ WsMessage
    \/ ConnectionTimeoutFired
    \/ ReconnectTimeoutFired
    \/ KeepAliveFired

\* No transport object: the channel is used on its own
NoTransport ==
    /\ transport = "none"
    /\ state = "none"
    /\ pc = FALSE
    /\ micEnabled = FALSE
    /\ mmInitialized = FALSE
    /\ mmConnected = FALSE
    /\ connectResolve = FALSE
    /\ processor = FALSE
    /\ recording = FALSE
    /\ initializeCall = "idle"
    /\ connectCall = "idle"
    /\ disconnectCall = "idle"
    /\ channelTimeout = FALSE
    /\ channel = "null"
    /\ aborted = FALSE
    /\ sendResult = "none"
    /\ settledCalls = {}
    /\ called = <<>>

\* No call of the last step
NoCall == [name |-> "none", from |-> "none", threw |-> FALSE]

\* A recorder as constructed, with the given debug options
RecInit(debugs) ==
    /\ debug \in debugs
    /\ chunkProcessorSize = 0
    /\ chunkProcessorBuffer = <<>>
    /\ eventCall = "idle"
    /\ calledFrom = "none"
    /\ capturing = FALSE
    /\ captured = 0
    /\ delivered = <<>>
    /\ lastCall = NoCall

\* no offer
NoOffer == -2

\* no message
NoMessage ==
    [json |-> "none", type |-> "undefined", label |-> "undefined",
     message |-> "undefined"]

\* No Daily call object, and nothing received
NoDaily ==
    /\ received = NoMessage
    /\ forwarded = 0
    /\ listeners = 0
    /\ readyHandlers = 0
    /\ meeting = "none"
    /\ initialized = FALSE
    /\ remoteTracks = 0
    /\ readySent = 0
    /\ readyCalled = FALSE
    /\ dispatched = 0
    /\ dailyOp = "none"

\* A negotiator as constructed
NegInit ==
    /\ pcs = <<>>
    /\ peer = Null
    /\ pc_id = Null
    /\ reconnectionAttempts = 0
    /\ isReconnecting = FALSE
    /\ fetches = <<>>
    /\ retryTimers = 0
    /\ stops = <<>>
    /\ offered = FALSE
    /\ firstResponse = Null
    /\ offersSent = 0
    /\ negOps = {}
    /\ sent = NoOffer
    /\ dcKeepAliveInterval = Null
    /\ pings = {}
    /\ dcClosing = {}

\* No offer to filter
NoSdp ==
    /\ realSdp = <<>>
    /\ sdpKind = "none"
    /\ sdpCodec = <<>>
    /\ sdp = <<>>

\* The channel with the clock standing still and the application sending
Init ==
    /\ ChanInit(MaxSockets, AttemptInputs, {DEFAULT_RECONNECT_INTERVAL},
                RetryFns)
    /\ NoTransport
    /\ RecInit({FALSE})
    /\ NegInit
    /\ NoDaily
    /\ NoSdp
    /\ NoExt

Next ==
    \/ ChanNext
    \/ AppSend

Spec == Init /\ [][Next]_vars

\* The channel with the clock running
KeepAliveInit ==
    /\ ChanInit(TimedSockets, {0}, {DEFAULT_RECONNECT_INTERVAL},
                {"null", "true"})
    /\ NoTransport
    /\ RecInit({FALSE})
    /\ NegInit
    /\ NoDaily
    /\ NoSdp
    /\ NoExt

KeepAliveNext ==
    \/ ChanNext
    \/ AppSend
    \/ Tick

KeepAliveSpec == KeepAliveInit /\ [][KeepAliveNext]_vars

\* retryFailedConnection alone, over the configurations the setters allow
BackoffAttemptInputs == 0..MAX_RECONNECT_ATTEMPTS
BackoffIntervalInputs == {0, 1, 1000, 20000, 29999, 30000, 40000}

BackoffInit ==
    /\ ChanInit(0, BackoffAttemptInputs, BackoffIntervalInputs, {"true"})
    /\ NoTransport
    /\ RecInit({FALSE})
    /\ NegInit
    /\ NoDaily
    /\ NoSdp
    /\ NoExt

\* the reconnect timer fires or is cleared: the next request may schedule
BackoffCleared ==
    /\ reconnectTimeoutID # Null
    /\ Ran(ClearReconnectTimeout(Chan), "clear-reconnect")

\* a reconnect is requested
BackoffRetried ==
    /\ failures < MaxFailures
    /\ Ran(RetryFailedConnection(Chan), "retry")

BackoffNext ==
    \/ BackoffCleared
    \/ BackoffRetried

BackoffSpec == BackoffInit /\ [][BackoffNext]_vars

\* ============================================================== Part 2
(***************************************************************************)
(* Transport lifecycle.  One transport object of one of three classes:     *)
(* "websocket" (RealTimeWebsocketTransport, as GeminiLiveWebsocket-         *)
(* Transport with its default DailyMediaManager), "smallwebrtc"            *)
(* (SmallWebRTCTransport, DailyMediaManager) and "openai"                  *)
(* (OpenAIRealTimeWebRTCTransport).  An async method is one action per     *)
(* stretch between two suspensions on the environment; connectCall and     *)
(* disconnectCall hold where the call is suspended.                        *)
(***************************************************************************)
Transports == {"websocket", "smallwebrtc", "openai"}

\* the transport, its media manager and its recorder as one record
Trans ==
    [transport |-> transport, state |-> state, pc |-> pc,
     micEnabled |-> micEnabled, mmInitialized |-> mmInitialized,
     mmConnected |-> mmConnected, connectResolve |-> connectResolve,
     processor |-> processor, recording |-> recording,
     initializeCall |-> initializeCall, connectCall |-> connectCall,
     disconnectCall |-> disconnectCall, channelTimeout |-> channelTimeout,
     channel |-> channel, aborted |-> aborted, sendResult |-> "none",
     settledCalls |-> {},
     called |-> <<>>]

\* The next state is the record t; the channel is not touched
TSet(t) ==
    /\ transport' = t.transport
    /\ state' = t.state
    /\ pc' = t.pc
    /\ micEnabled' = t.micEnabled
    /\ mmInitialized' = t.mmInitialized
    /\ mmConnected' = t.mmConnected
    /\ connectResolve' = t.connectResolve
    /\ processor' = t.processor
    /\ recording' = t.recording
    /\ initializeCall' = t.initializeCall
    /\ connectCall' = t.connectCall
    /\ disconnectCall' = t.disconnectCall
    /\ channelTimeout' = t.channelTimeout
    /\ channel' = t.channel
    /\ aborted' = t.aborted
    /\ sendResult' = t.sendResult
    /\ settledCalls' = t.settledCalls
    /\ called' = t.called

TAssign(t) ==
    /\ TSet(t)
    /\ UNCHANGED chanVars

\* a step of a transport, which leaves the chunker alone
TBecomes(t) ==
    /\ TAssign(t)
    /\ UNCHANGED <<recVars, negVars, msgVars, dailyVars, sdpVars, extVars>>

\* this._callbacks.<name>?.()
Callback(t, name) == [t EXCEPT !.called = Append(@, name)]

\* a promise returned by call settles
SettleCall(t, call, outcome) ==
    [t EXCEPT !.settledCalls = @ \cup {<<call, outcome>>}]

\* set state(state)
SetState(t, s) ==
    IF t.state = s THEN t
    ELSE Callback([t EXCEPT !.state = s], "onTransportStateChanged")

\* MediaStreamRecorder.getStatus()
GetStatus(t) ==
    IF ~t.processor THEN "ended"
    ELSE IF ~t.recording THEN "paused" ELSE "recording"

\* MediaStreamRecorder.begin(track), to its return
RecorderBegin(t) == [t EXCEPT !.processor = TRUE]

\* MediaStreamRecorder.record(): throws unless a session is paused
RecorderRecord(t) ==
    IF ~t.processor \/ t.recording THEN t ELSE [t EXCEPT !.recording = TRUE]

\* MediaStreamRecorder.pause()
RecorderPause(t) ==
    IF ~t.processor \/ ~t.recording THEN t ELSE [t EXCEPT !.recording = FALSE]

\* MediaStreamRecorder.end() throws before its first await
RecorderEndThrows(t) == ~t.processor

\* MediaStreamRecorder.end(), from its first await to its return
RecorderEnd(t) == [t EXCEPT !.recording = FALSE, !.processor = FALSE]

\* DailyMediaManager._startRecording()
StartRecording(t) == IF ~t.mmConnected THEN t ELSE RecorderRecord(t)

\* DailyMediaManager.connect(), to its return; the promise it returns is
\* pending exactly when connectResolve is set by it
MediaConnect(t) ==
    IF t.mmConnected THEN t
    ELSE LET u == [t EXCEPT !.mmConnected = TRUE]
         IN  IF ~u.mmInitialized
             THEN [u EXCEPT !.connectResolve = TRUE,
                            !.initializeCall = "connect"]
             ELSE IF u.micEnabled THEN StartRecording(u) ELSE u

\* DailyMediaManager.initialize(), from startCamera() to its return
MediaInitialized(t) == [t EXCEPT !.mmInitialized = TRUE]

\* DailyMediaManager.disconnect(), from the recorder's end() to its return
MediaDisconnected(t) ==
    [RecorderEnd(t) EXCEPT !.mmInitialized = FALSE, !.mmConnected = FALSE]

\* SmallWebRTCTransport.startNewPeerConnection(), to its first suspension
StartNewPeerConnection(t) ==
    [t EXCEPT !.pc = TRUE, !.channel = "connecting", !.connectCall = "peer"]

\* DailyMediaManager._handleTrackStarted for the local audio track; newTrack
\* is whether the event's track differs from the current one
HandleTrackStarted(t, newTrack) ==
    LET u == CASE GetStatus(t) = "ended" ->
                     LET b == RecorderBegin(t)
                     IN  IF b.mmConnected
                         THEN [StartRecording(b) EXCEPT
                                  !.connectResolve = FALSE]
                         ELSE b
               [] GetStatus(t) = "paused" -> StartRecording(t)
               [] OTHER ->
                     IF newTrack
                     THEN StartRecording(RecorderBegin(RecorderEnd(t)))
                     ELSE t
    IN  Callback(u, "onTrackStarted")

\* DailyMediaManager._handleTrackStopped for the local audio track
HandleTrackStopped(t) ==
    Callback(IF GetStatus(t) = "recording" THEN RecorderPause(t) ELSE t,
             "onTrackStopped")

\* a connect() call is suspended
Connecting(t) == t.connectCall \in {"llm", "media", "peer"}

\* a disconnect() call is suspended
Disconnecting(t) == t.disconnectCall \in {"media", "llm"}

\* connect(), to its first suspension on the environment
TransportConnect(t) ==
    CASE t.transport = "websocket" ->
             [SetState(t, "connecting") EXCEPT !.connectCall = "llm",
                                               !.channelTimeout = TRUE]
      [] t.transport = "openai" ->
             IF ~t.pc THEN SettleCall(t, "connect", "resolved")
             ELSE [SetState(t, "connecting") EXCEPT !.connectCall = "llm"]
      [] OTHER ->
             IF t.aborted THEN SettleCall(t, "connect", "resolved")
             ELSE LET u == MediaConnect(SetState(t, "connecting"))
                  IN  IF u.connectResolve
                      THEN [u EXCEPT !.connectCall = "media"]
                      ELSE StartNewPeerConnection(u)

\* SmallWebRTCTransport.connect() resumed by startNewPeerConnection()
\* returning, its signal aborted by then
ConnectAborted(t) ==
    SettleCall([t EXCEPT !.connectCall = "idle"], "connect", "resolved")

\* connect() resumed by connectLLM() / _connectLLM() resolving
LLMConnected(t) ==
    LET u == IF t.transport = "websocket" THEN MediaConnect(t) ELSE t
    IN  SettleCall(Callback([SetState(u, "connected") EXCEPT
                                !.connectCall = "idle",
                                !.channelTimeout = FALSE,
                                !.channel = IF t.transport = "websocket"
                                            THEN "open" ELSE @],
                            "onConnected"),
                   "connect", "resolved")

\* connect() resumed by connectLLM() / _negotiateConnection() throwing
LLMConnectFailed(t) ==
    SettleCall([SetState(t, "error") EXCEPT !.connectCall = "idle"],
               "connect", "rejected")

\* SmallWebRTCTransport.connect() resumed by the data channel's 'open'
DataChannelOpened(t) ==
    SettleCall(Callback([SetState(t, "connected") EXCEPT
                            !.connectCall = "idle", !.channel = "open"],
                        "onConnected"),
               "connect", "resolved")

\* OpenAIRealTimeWebRTCTransport.initialize()
OpenAIInitialize(t) ==
    SetState([SetState(t, "initializing") EXCEPT
                 !.pc = TRUE, !.channel = "connecting"],
             "initialized")

\* OpenAIRealTimeWebRTCTransport._cleanup()
Cleanup(t) == [t EXCEPT !.pc = FALSE, !.channel = "null"]

\* SmallWebRTCTransport.stop(), from mediaManager.disconnect() resolving
Stopped(t) ==
    LET u == Callback(t, "onDisconnected")
    IN  IF u.connectCall = "peer"
        THEN SettleCall([u EXCEPT !.connectCall = "idle"],
                        "connect", "rejected")
        ELSE u

\* disconnect() resumed by what it awaits
DisconnectResumed(t) ==
    CASE t.disconnectCall = "media" /\ t.transport = "websocket" ->
             [MediaDisconnected(t) EXCEPT !.disconnectCall = "llm",
                                          !.channel = "closed"]
      [] t.disconnectCall = "media" /\ t.transport = "smallwebrtc" ->
             SettleCall([SetState(Stopped(MediaDisconnected(t)),
                                  "disconnected")
                           EXCEPT !.disconnectCall = "idle"],
                        "disconnect", "resolved")
      [] t.disconnectCall = "llm" ->
             SettleCall(Callback([SetState(t, "disconnected") EXCEPT
                                     !.disconnectCall = "idle"],
                                 "onDisconnected"),
                        "disconnect", "resolved")
      [] OTHER -> t

\* disconnect(), to its first suspension on the environment
TransportDisconnect(t) ==
    LET u == SetState(t, "disconnecting")
    IN  CASE t.transport = "websocket" ->
                 IF RecorderEndThrows(u)
                 THEN SettleCall(u, "disconnect", "rejected")
                 ELSE [u EXCEPT !.disconnectCall = "media"]
          [] t.transport = "smallwebrtc" ->
                 IF ~u.pc
                 THEN SettleCall(SetState(u, "disconnected"),
                                 "disconnect", "resolved")
                 ELSE LET v == [u EXCEPT !.pc = FALSE, !.channel = "closed"]
                      IN  IF RecorderEndThrows(v)
                          THEN SettleCall(v, "disconnect", "rejected")
                          ELSE [v EXCEPT !.disconnectCall = "media"]
          [] OTHER ->
                 SettleCall(
                     OpenAIInitialize(
                         Callback(SetState(Cleanup(u), "disconnected"),
                                  "onDisconnected")),
                     "disconnect", "resolved")

\* RealTimeWebsocketTransport.connectionError()
ConnectionError(t) == TransportDisconnect(SetState(t, "error"))

\* the kinds of RTVI message the application sends
Messages == {"send-text", "action", "other"}

\* sendMessage(message): "sent" to the channel, "dropped" with a log,
\* "ignored" (not a message the transport forwards) or "threw"
SendMessage(t, message) ==
    CASE t.transport = "smallwebrtc" ->
             IF t.channel = "null" \/ t.channel # "open"
             THEN [t EXCEPT !.sendResult = "dropped"]
             ELSE [t EXCEPT !.sendResult = "sent"]
      [] t.transport = "websocket" ->
             IF message # "send-text" THEN [t EXCEPT !.sendResult = "ignored"]
             ELSE IF t.channel # "open"
                  THEN [t EXCEPT !.sendResult = "dropped"]
                  ELSE [t EXCEPT !.sendResult = "sent"]
      [] OTHER ->
             IF message # "action" THEN [t EXCEPT !.sendResult = "ignored"]
             ELSE IF t.channel = "null"
                  THEN [t EXCEPT !.sendResult = "dropped"]
                  ELSE IF t.channel = "open"
                       THEN [t EXCEPT !.sendResult = "sent"]
                       ELSE [t EXCEPT !.sendResult = "threw"]

\* ---------------------------------------------------------- transport Init
\* The transport after the client constructed it and called initialize()
TransInit(kinds) ==
    /\ transport \in kinds
    /\ state = IF transport \in {"smallwebrtc", "daily"} THEN "disconnected"
               ELSE "initialized"
    /\ pc = (transport = "openai")
    /\ micEnabled \in IF transport \in {"websocket", "smallwebrtc"}
                      THEN BOOLEAN ELSE {FALSE}
    /\ mmInitialized = FALSE
    /\ mmConnected = FALSE
    /\ connectResolve = FALSE
    /\ processor = FALSE
    /\ recording = FALSE
    /\ initializeCall = "idle"
    /\ connectCall = "idle"
    /\ disconnectCall = "idle"
    /\ channelTimeout = FALSE
    /\ channel = CASE transport = "websocket" -> "closed"
                    [] transport = "openai" -> "connecting"
                    [] OTHER -> "null"
    /\ aborted = FALSE
    /\ sendResult = "none"
    /\ settledCalls = {}
    /\ called = <<>>

\* ------------------------------------------------------- transport actions
\* the application calls initDevices()
TInitDevices ==
    /\ transport \in {"websocket", "smallwebrtc"}
    /\ initializeCall = "idle"
    /\ ~Connecting(Trans) /\ ~Disconnecting(Trans)
    /\ LET t == IF transport = "smallwebrtc"
                THEN SetState(Trans, "initializing") ELSE Trans
       IN  IF t.mmInitialized
           THEN TBecomes(IF transport = "smallwebrtc"
                         THEN SetState(t, "initialized") ELSE t)
           ELSE TBecomes([t EXCEPT !.initializeCall = "initDevices"])

\* the devices are started: mediaManager.initialize() returns
TMediaInitialized ==
    /\ initializeCall # "idle"
    /\ LET t == [MediaInitialized(Trans) EXCEPT !.initializeCall = "idle"]
       IN  TBecomes(IF initializeCall = "initDevices"
                       /\ transport = "smallwebrtc"
                    THEN SetState(t, "initialized") ELSE t)

\* the call object reports the local audio track started
TTrackStarted ==
    /\ transport \in {"websocket", "smallwebrtc"}
    /\ micEnabled
    /\ mmInitialized \/ initializeCall # "idle"
    /\ \E newTrack \in BOOLEAN :
          LET t == HandleTrackStarted(Trans, newTrack)
          IN  TBecomes(IF connectCall = "media" /\ ~t.connectResolve
                       THEN StartNewPeerConnection(t) ELSE t)

\* the call object reports the local audio track stopped
TTrackStopped ==
    /\ transport \in {"websocket", "smallwebrtc"}
    /\ processor
    /\ TBecomes(HandleTrackStopped(Trans))

\* the application calls connect()
TConnect ==
    /\ transport \in Transports
    /\ state \notin {"connecting", "connected", "ready"}
    /\ ~Connecting(Trans) /\ ~Disconnecting(Trans)
    /\ initializeCall = "idle"
    /\ \E a \in BOOLEAN :
          TBecomes(TransportConnect([Trans EXCEPT !.aborted = a]))

\* the application aborts the signal of the suspended connect()
TAbort ==
    /\ Connecting(Trans)
    /\ ~aborted
    /\ TBecomes([Trans EXCEPT !.aborted = TRUE])

\* startNewPeerConnection() returns to a connect() whose signal was aborted
\* before; one aborted later is past the check and awaits the data channel
TConnectAborted ==
    /\ transport = "smallwebrtc"
    /\ connectCall = "peer"
    /\ aborted
    /\ TBecomes(ConnectAborted(Trans))

\* the LLM connection is made
TLLMConnected ==
    /\ connectCall = "llm"
    /\ TBecomes(LLMConnected(Trans))

\* the LLM connection fails
TLLMConnectFailed ==
    /\ connectCall = "llm"
    /\ TBecomes(LLMConnectFailed(Trans))

\* the data channel of the peer connection opens
TDataChannelOpened ==
    /\ connectCall = "peer"
    /\ pc
    /\ TBecomes(DataChannelOpened(Trans))

\* the data channel to the LLM opens
TChannelOpened ==
    /\ transport = "openai"
    /\ channel = "connecting"
    /\ state = "connected"
    /\ TBecomes([Trans EXCEPT !.channel = "open"])

\* the peer connection to the LLM reports 'closed' or 'failed'
TPeerFailed ==
    /\ transport = "openai"
    /\ pc
    /\ state \in {"connected", "ready"}
    /\ TBecomes(Cleanup(Trans))

\* the application calls sendMessage()
TSendMessage ==
    /\ transport \in Transports
    /\ \E message \in Messages : TBecomes(SendMessage(Trans, message))

\* the LLM announces its session ('setupComplete', 'session.created') on
\* the open channel; the listener looks at no state
TBotReady ==
    /\ transport \in {"websocket", "openai"}
    /\ channel = "open"
    /\ state # "ready"
    /\ TBecomes(SetState(Trans, "ready"))

\* the channel of the websocket transport reports an error or a close
TConnectionError ==
    /\ transport = "websocket"
    /\ state \in {"connecting", "connected", "ready"}
    /\ ~Disconnecting(Trans)
    /\ TBecomes(ConnectionError([Trans EXCEPT !.channel = "closed"]))

\* the connection timeout of the channel, armed by connectLLM() and cleared
\* only by the socket opening, fires: 'connection-timeout'
TConnectionTimeout ==
    /\ channelTimeout
    /\ ~Disconnecting(Trans)
    /\ TBecomes(ConnectionError([Trans EXCEPT !.channelTimeout = FALSE,
                                              !.channel = "closed"]))

\* the application calls disconnect()
TDisconnect ==
    /\ transport \in Transports
    /\ ~Disconnecting(Trans)
    /\ TBecomes(TransportDisconnect(Trans))

\* what disconnect() awaits is done
TDisconnectResumed ==
    /\ Disconnecting(Trans)
    /\ TBecomes(DisconnectResumed(Trans))

TransportNext ==
    \/ TInitDevices
    \/ TMediaInitialized
    \/ TTrackStarted
    \/ TTrackStopped
    \/ TConnect
    \/ TAbort
    \/ TConnectAborted
    \/ TLLMConnected
    \/ TLLMConnectFailed
    \/ TDataChannelOpened
    \/ TBotReady
    \/ TChannelOpened
    \/ TPeerFailed
    \/ TSendMessage
    \/ TConnectionError
    \/ TConnectionTimeout
    \/ TDisconnect
    \/ TDisconnectResumed

TransportInit ==
    /\ ChanInit(0, {0}, {DEFAULT_RECONNECT_INTERVAL}, {"null"})
    /\ TransInit(Transports)
    /\ RecInit({FALSE})
    /\ NegInit
    /\ NoDaily
    /\ NoSdp
    /\ NoExt

TransportSpec == TransportInit /\ [][TransportNext]_vars

\* The same, with what the environment owes: an await of disconnect() on the
\* recorder, the player or the socket returns, so does the start of the
\* devices, and an armed timer fires.  The application owes nothing.
TransportFairSpec ==
    /\ TransportSpec
    /\ WF_vars(TDisconnectResumed)
    /\ WF_vars(TMediaInitialized)
    /\ WF_vars(TConnectionTimeout)

\* ================================================================ claims
\* ============================================================ the chunker
\* MediaStreamRecorder: begin/record/pause/end and the worklet's messages.
\* Captured bytes are numbered 1, 2, ... in the order the worklet sends them
\* within a session; a buffer is the sequence of the bytes it holds.  raw and
\* mono are merged side by side from the same chunks, so one sequence stands
\* for both.

\* lengths (mono bytes) of one worklet chunk
ChunkLengths == {1, 2}

\* values of record()'s chunkSize
ChunkSizes == {0, 2, 3}

\* kinds of begin()'s audioTrack argument
AudioTracks == {"audio", "video", "undefined"}

Rec ==
    [processor |-> processor, recording |-> recording, debug |-> debug,
     chunkProcessorSize |-> chunkProcessorSize,
     chunkProcessorBuffer |-> chunkProcessorBuffer,
     eventCall |-> eventCall, calledFrom |-> calledFrom,
     capturing |-> capturing,
     captured |-> captured, delivered |-> delivered, lastCall |-> NoCall]

RecBecomes(r) ==
    /\ TAssign([Trans EXCEPT !.processor = r.processor,
                             !.recording = r.recording])
    /\ debug' = r.debug
    /\ chunkProcessorSize' = r.chunkProcessorSize
    /\ chunkProcessorBuffer' = r.chunkProcessorBuffer
    /\ eventCall' = r.eventCall
    /\ calledFrom' = r.calledFrom
    /\ capturing' = r.capturing
    /\ captured' = r.captured
    /\ delivered' = r.delivered
    /\ lastCall' = r.lastCall
    /\ UNCHANGED <<negVars, msgVars, dailyVars, sdpVars, extVars>>

\* the bytes numbered a..b
Bytes(a, b) == [i \in 1..(b - a + 1) |-> a + i - 1]

\* WavPacker.mergeBuffers(left, right)
MergeBuffers(left, right) == left \o right

\* this._chunkProcessor(buffer), called from `by`
ChunkProcessor(r, buffer, by) ==
    [r EXCEPT !.delivered = Append(@, [data |-> buffer, by |-> by,
                                       size |-> r.chunkProcessorSize])]

\* the call `name`, made in status `from`, throws / returns
Threw(r, name, from) ==
    [r EXCEPT !.eventCall = "idle", !.calledFrom = "none",
              !.lastCall = [name |-> name, from |-> from, threw |-> TRUE]]

Returned(r, name, from) ==
    [r EXCEPT !.eventCall = "idle", !.calledFrom = "none",
              !.lastCall = [name |-> name, from |-> from, threw |-> FALSE]]

\* log(): with debug set it calls itself without end
LogThrows(r) == r.debug

\* begin(audioTrack); moduleLoads: audioWorklet.addModule() succeeds
Begin(r, audioTrack, moduleLoads) ==
    IF r.processor THEN Threw(r, "begin", GetStatus(r))
    ELSE IF audioTrack # "audio" THEN Threw(r, "begin", GetStatus(r))
    ELSE IF ~moduleLoads THEN Threw(r, "begin", GetStatus(r))
    ELSE Returned([r EXCEPT !.processor = TRUE, !.captured = 0,
                            !.delivered = <<>>],
                  "begin", GetStatus(r))

\* port.onmessage delivering every merged buffer, whatever its length
PortChunk_NoThreshold(r, data) ==
    IF r.chunkProcessorSize # 0
    THEN LET merged == MergeBuffers(r.chunkProcessorBuffer, data)
             u == [r EXCEPT !.chunkProcessorBuffer = merged]
         IN  [ChunkProcessor(u, merged, "chunk") EXCEPT
                 !.chunkProcessorBuffer = <<>>]
    ELSE ChunkProcessor(r, data, "chunk")

\* processor.port.onmessage for a 'chunk' event carrying `data`
PortChunk(r, data) ==
    IF r.chunkProcessorSize # 0
    THEN LET merged == MergeBuffers(r.chunkProcessorBuffer, data)
             u == [r EXCEPT !.chunkProcessorBuffer = merged]
         IN  IF Len(merged) >= r.chunkProcessorSize
             THEN [ChunkProcessor(u, merged, "chunk") EXCEPT
                      !.chunkProcessorBuffer = <<>>]
             ELSE u
    ELSE ChunkProcessor(r, data, "chunk")

\* pause(), up to its await of _event("stop")
Pause(r) ==
    IF ~r.processor THEN Threw(r, "pause", GetStatus(r))
    ELSE IF ~r.recording THEN Threw(r, "pause", GetStatus(r))
    ELSE LET u == IF Len(r.chunkProcessorBuffer) # 0
                  THEN ChunkProcessor(r, r.chunkProcessorBuffer, "pause")
                  ELSE r
         IN  IF LogThrows(u) THEN Threw(u, "pause", GetStatus(r))
             ELSE [u EXCEPT !.eventCall = "pause",
                            !.calledFrom = GetStatus(r)]

\* record(chunkProcessor, chunkSize), up to its await of _event("start")
Record(r, chunkSize) ==
    IF ~r.processor THEN Threw(r, "record", GetStatus(r))
    ELSE IF r.recording THEN Threw(r, "record", GetStatus(r))
    ELSE LET u == [r EXCEPT !.chunkProcessorSize = chunkSize,
                            !.chunkProcessorBuffer = <<>>]
         IN  IF LogThrows(u) THEN Threw(u, "record", GetStatus(r))
             ELSE [u EXCEPT !.eventCall = "record",
                            !.calledFrom = GetStatus(r)]

\* end(), up to its await of _event("stop")
End(r) ==
    IF ~r.processor THEN Threw(r, "end", GetStatus(r))
    ELSE IF LogThrows(r) THEN Threw(r, "end", GetStatus(r))
    ELSE [r EXCEPT !.eventCall = "end", !.calledFrom = GetStatus(r)]

\* _event() returns the worklet's receipt and the suspended call goes on
EventReceipt(r) ==
    CASE r.eventCall = "record" ->
             Returned([r EXCEPT !.recording = TRUE, !.capturing = TRUE],
                      "record", r.calledFrom)
      [] r.eventCall = "pause" ->
             Returned([r EXCEPT !.recording = FALSE, !.capturing = FALSE],
                      "pause", r.calledFrom)
      [] r.eventCall = "end" ->
             [r EXCEPT !.recording = FALSE, !.capturing = FALSE,
                       !.eventCall = "export"]
      [] OTHER ->
             Returned([r EXCEPT !.processor = FALSE], "end", r.calledFrom)

\* --------------------------------------------------------- chunker actions
\* bytes captured per session
MaxCaptured == 4

RBegin ==
    /\ eventCall = "idle"
    /\ \E audioTrack \in AudioTracks, moduleLoads \in BOOLEAN :
           RecBecomes(Begin(Rec, audioTrack, moduleLoads))

RRecord ==
    /\ eventCall = "idle"
    /\ \E chunkSize \in ChunkSizes : RecBecomes(Record(Rec, chunkSize))

RPause ==
    /\ eventCall = "idle"
    /\ RecBecomes(Pause(Rec))

REnd ==
    /\ eventCall = "idle"
    /\ RecBecomes(End(Rec))

REventReceipt ==
    /\ eventCall # "idle"
    /\ RecBecomes(EventReceipt(Rec))

RPortChunk ==
    /\ capturing
    /\ \E n \in ChunkLengths :
           /\ captured + n <= MaxCaptured
           /\ RecBecomes(PortChunk([Rec EXCEPT !.captured = @ + n],
                                   Bytes(captured + 1, captured + n)))

RecorderNext ==
    \/ RBegin
    \/ RRecord
    \/ RPause
    \/ REnd
    \/ REventReceipt
    \/ RPortChunk

RecorderInit ==
    /\ ChanInit(0, {0}, {DEFAULT_RECONNECT_INTERVAL}, {"null"})
    /\ NoTransport
    /\ RecInit(BOOLEAN)
    /\ NegInit
    /\ NoDaily
    /\ NoSdp
    /\ NoExt

RecorderSpec == RecorderInit /\ [][RecorderNext]_vars

\* ========================================================= the negotiator
\* SmallWebRTCTransport: connect/disconnect, the offer/answer exchange and
\* the recovery of the peer connection.  The media manager's connect() and
\* disconnect() are calls that return or, for disconnect(), throw.
maxReconnectionAttempts == 3

\* peer connections created, offers sent, retry timers pending, stop() calls
\* suspended
MaxPeers == 2
MaxOffers == 4
MaxTimers == 2
MaxStops == 1

\* the local tracks the media manager hands over
Tracks == {"track1", "track2"}

Neg ==
    [t |-> Trans, pcs |-> pcs, peer |-> peer, pc_id |-> pc_id,
     reconnectionAttempts |-> reconnectionAttempts,
     isReconnecting |-> isReconnecting, fetches |-> fetches,
     retryTimers |-> retryTimers, stops |-> stops, offered |-> offered,
     firstResponse |-> firstResponse, offersSent |-> offersSent,
     negOps |-> {}, sent |-> NoOffer, received |-> NoMessage,
     forwarded |-> 0, dcKeepAliveInterval |-> dcKeepAliveInterval,
     pings |-> pings, dcClosing |-> dcClosing]

NegBecomes(n) ==
    /\ Len(n.pcs) <= MaxPeers
    /\ n.offersSent <= MaxOffers
    /\ n.retryTimers <= MaxTimers
    /\ Len(n.stops) <= MaxStops
    /\ TAssign([n.t EXCEPT !.pc = (n.peer # Null)])
    /\ pcs' = n.pcs
    /\ peer' = n.peer
    /\ pc_id' = n.pc_id
    /\ reconnectionAttempts' = n.reconnectionAttempts
    /\ isReconnecting' = n.isReconnecting
    /\ fetches' = n.fetches
    /\ retryTimers' = n.retryTimers
    /\ stops' = n.stops
    /\ offered' = n.offered
    /\ firstResponse' = n.firstResponse
    /\ offersSent' = n.offersSent
    /\ negOps' = n.negOps
    /\ sent' = n.sent
    /\ received' = n.received
    /\ forwarded' = n.forwarded
    /\ dcKeepAliveInterval' = n.dcKeepAliveInterval
    /\ pings' = n.pings
    /\ dcClosing' = n.dcClosing
    /\ UNCHANGED <<recVars, dailyVars, sdpVars, extVars>>

\* the step did `what`
Did(n, what) == [n EXCEPT !.negOps = @ \cup {what}]

\* a sequence without its i-th element
Without(q, i) == SubSeq(q, 1, i - 1) \o SubSeq(q, i + 1, Len(q))

\* createPeerConnection(): a new RTCPeerConnection; localOffer is the number
\* of the offer set as its local description while it awaits the answer,
\* negotiated is whether it is live: has its remote description and is open
CreatePeerConnection ==
    [transceivers |-> <<>>, localOffer |-> 0, negotiated |-> FALSE,
     closed |-> FALSE]

\* addInitialTransceivers() adding the audio transceiver only
AddInitialTransceivers_AudioOnly(p) ==
    [p EXCEPT !.transceivers = Append(@, [kind |-> "audio", track |-> "none"])]

\* addInitialTransceivers()
AddInitialTransceivers(p) ==
    [p EXCEPT !.transceivers =
        Append(Append(@, [kind |-> "audio", track |-> "none"]),
               [kind |-> "video", track |-> "none"])]

\* getTransceivers()[i - 1].sender.replaceTrack(track); with no such
\* transceiver the call throws and nothing is replaced
ReplaceTrack(p, i, track) ==
    IF i \in DOMAIN p.transceivers
    THEN [p EXCEPT !.transceivers[i].track = track]
    ELSE p

\* addUserMedia(): the media manager's current local tracks
AddUserMedia(p) == ReplaceTrack(ReplaceTrack(p, 1, "track1"), 2, "track1")

\* closePeerConnection(pc): transceivers and sender tracks stopped, pc closed;
\* closing it closes its data channel, whose 'close' event may follow
ClosePeerConnection(n, i) ==
    [n EXCEPT !.dcClosing = IF n.pcs[i].closed THEN @ ELSE @ \cup {i},
              !.pcs[i].closed = TRUE,
              !.pcs[i].localOffer = 0,
              !.pcs[i].negotiated = FALSE,
              !.pcs[i].transceivers =
                  [j \in DOMAIN @ |-> [@[j] EXCEPT !.track = "none"]]]

\* handleReconnectionCompleted()
HandleReconnectionCompleted(n) ==
    [n EXCEPT !.reconnectionAttempts = 0, !.isReconnecting = FALSE]

\* negotiate(), to its await of fetch(): the offer is made the local
\* description and posted with this.pc_id
Negotiate(n, mode, oldPC) ==
    IF n.peer = Null THEN Did(n, "rejected")
    ELSE LET number == n.offersSent + 1
         IN  Did([n EXCEPT !.pcs[n.peer].localOffer = number,
                           !.fetches = Append(@, [pc |-> n.peer,
                                                  mode |-> mode,
                                                  oldPC |-> oldPC,
                                                  sent |-> n.pc_id,
                                                  number |-> number]),
                           !.offersSent = number,
                           !.offered = TRUE,
                           !.sent = n.pc_id],
                 "offer")

\* negotiate()'s catch
Catch(n) ==
    Did([n EXCEPT !.isReconnecting = FALSE, !.retryTimers = @ + 1], "failed")

\* what follows `await negotiate()` in the caller of the negotiation f
AfterNegotiate(n, f) ==
    CASE f.mode = "hard" ->
             IF f.oldPC # Null
             THEN Did(ClosePeerConnection(n, f.oldPC), "old-closed")
             ELSE n
      [] f.mode = "connect" -> [n EXCEPT !.t.connectCall = "peer"]
      [] OTHER -> n

\* can setRemoteDescription() of this.pc take the answer to the offer f:
\* yes if that offer is its pending local description, no if it has none;
\* an answer to another offer may or may not fit
Applies(n, f) ==
    IF n.peer = Null THEN {FALSE}
    ELSE IF n.pcs[n.peer].localOffer = 0 THEN {FALSE}
    ELSE IF n.pcs[n.peer].localOffer = f.number THEN {TRUE}
    ELSE BOOLEAN

\* negotiate(), from the fetch of its i-th pending call to its return, and
\* then its caller.  outcome: "answer" (the server answers, echoing the
\* pc_id it was sent or naming a new one), "error" (a JSON body that is no
\* answer and has no pc_id), "network-error" (fetch rejects)
Response(n, i, outcome, applies) ==
    LET f == n.fetches[i]
        u == [n EXCEPT !.fetches = Without(@, i)]
    IN  CASE outcome = "answer" ->
                 LET id == IF f.sent > 0 THEN f.sent ELSE f.number
                     v == [u EXCEPT !.pc_id = id,
                                    !.firstResponse =
                                        IF @ = Null THEN id ELSE @]
                 IN  IF applies
                     THEN AfterNegotiate(
                              Did(HandleReconnectionCompleted(
                                      [v EXCEPT
                                          !.pcs[v.peer].localOffer = 0,
                                          !.pcs[v.peer].negotiated = TRUE]),
                                  "negotiated"),
                              f)
                     ELSE AfterNegotiate(Catch(v), f)
          [] outcome = "error" ->
                 AfterNegotiate(Catch([u EXCEPT !.pc_id = Undefined]), f)
          [] OTHER -> AfterNegotiate(Catch(u), f)

\* startNewPeerConnection(), to negotiate()'s await of fetch()
NewPeerConnection(n, mode, oldPC) ==
    Negotiate([n EXCEPT
                  !.pcs = Append(@, AddUserMedia(AddInitialTransceivers(
                                        CreatePeerConnection))),
                  !.peer = Len(n.pcs) + 1,
                  !.t.channel = "connecting"],
              mode, oldPC)

\* what follows `await this.stop()` in its caller
StopReturned(n, caller) ==
    IF caller = "disconnect"
    THEN [n EXCEPT !.t = SettleCall([SetState(n.t, "disconnected") EXCEPT
                                        !.disconnectCall = "idle"],
                                    "disconnect", "resolved")]
    ELSE n

\* stop(), to its await of mediaManager.disconnect()
Stop(n, caller) ==
    IF n.peer = Null THEN StopReturned(n, caller)
    ELSE [ClosePeerConnection(n, n.peer) EXCEPT
             !.peer = Null,
             !.t.channel = "closed",
             !.stops = Append(@, caller)]

\* stop(), from mediaManager.disconnect() returning or throwing
StopResumed(n, i, threw) ==
    LET caller == n.stops[i]
        u == [n EXCEPT !.stops = Without(@, i)]
    IN  IF threw
        THEN IF caller = "disconnect"
             THEN [u EXCEPT !.t = SettleCall([u.t EXCEPT
                                                 !.disconnectCall = "idle"],
                                             "disconnect", "rejected")]
             ELSE u
        ELSE StopReturned(
                 Did([u EXCEPT !.pc_id = Null,
                               !.reconnectionAttempts = 0,
                               !.isReconnecting = FALSE,
                               !.offered = FALSE,
                               !.firstResponse = Null,
                               !.t = Stopped(u.t)],
                     IF caller = "recovery" THEN "exhausted-stopped"
                     ELSE "stopped"),
                 caller)

\* attemptReconnection(recreatePeerConnection)
AttemptReconnection(n, recreatePeerConnection) ==
    IF n.isReconnecting THEN Did(n, "dropped")
    ELSE IF n.reconnectionAttempts >= maxReconnectionAttempts
         THEN Stop(Did(n, "exhausted"), "recovery")
         ELSE LET u == Did([n EXCEPT !.isReconnecting = TRUE,
                                     !.reconnectionAttempts = @ + 1],
                           "recovery")
              IN  IF recreatePeerConnection
                  THEN NewPeerConnection(u, "hard", n.peer)
                  ELSE Negotiate(u, "soft", Null)

\* What the data channel or the call object can deliver: json is what
\* JSON.parse makes of the text (it throws on "invalid"), and the fields of
\* an object that are missing read as "undefined"
Message(json, type, label, message) ==
    [json |-> json, type |-> type, label |-> label, message |-> message]

\* the server's request to renegotiate
Renegotiate == Message("object", "signalling", "undefined", "renegotiate")

SignallingMessages ==
    {Renegotiate, Message("object", "signalling", "rtvi-ai", "renegotiate"),
     Message("object", "signalling", "rtvi-ai", "unknown")}

LabelledMessages ==
    {Message("object", "bot-ready", label, "undefined") :
        label \in {"rtvi-ai", "other", "undefined"}}

InboundMessages ==
    SignallingMessages \cup LabelledMessages
    \cup {Message("invalid", "undefined", "undefined", "undefined"),
          Message("null", "undefined", "undefined", "undefined")}

\* handleSignallingMessage(messageObj)
HandleSignallingMessage(n, m) ==
    IF m.message = "renegotiate" THEN AttemptReconnection(n, FALSE)
    ELSE n

\* handleMessage(message) that looks at the label before the type
SmallWebRTCHandleMessage_LabelFirst(n, m) ==
    LET u == [n EXCEPT !.received = m]
    IN  IF m.json \in {"invalid", "null"} THEN u
        ELSE IF m.label = "rtvi-ai" THEN [u EXCEPT !.forwarded = @ + 1]
        ELSE IF m.type = "signalling" THEN HandleSignallingMessage(u, m)
        ELSE u

\* SmallWebRTCTransport.handleMessage(message); reading .type of null
\* throws inside the try as JSON.parse does on text that is not JSON
SmallWebRTCHandleMessage(n, m) ==
    LET u == [n EXCEPT !.received = m]
    IN  IF m.json \in {"invalid", "null"} THEN u
        ELSE IF m.type = "signalling" THEN HandleSignallingMessage(u, m)
        ELSE IF m.label = "rtvi-ai" THEN [u EXCEPT !.forwarded = @ + 1]
        ELSE u

\* createDataChannel(): the 'open' listener of the data channel of pc i
\* resolves a waiting connect() and sets the ping interval, which sends on
\* this channel
DataChannelOpenListener(n, i) ==
    [n EXCEPT !.t = IF n.t.connectCall = "peer"
                    THEN DataChannelOpened(n.t)
                    ELSE [n.t EXCEPT !.channel = "open"],
              !.dcKeepAliveInterval = i,
              !.pings = @ \cup {i}]

\* createDataChannel(): the 'close' listener of the data channel of pc i
\* clears the interval this.keepAliveInterval names
DataChannelCloseListener(n, i) ==
    [n EXCEPT !.dcClosing = @ \ {i},
              !.pings = @ \ {n.dcKeepAliveInterval},
              !.dcKeepAliveInterval = Null]

\* ------------------------------------------------------ negotiator actions
\* the application calls connect()
NConnect ==
    /\ state \notin {"connecting", "connected", "ready"}
    /\ connectCall = "idle"
    /\ disconnectCall = "idle"
    /\ NegBecomes(NewPeerConnection(
           [Neg EXCEPT !.t = [SetState(Trans, "connecting") EXCEPT
                                 !.connectCall = "negotiating"]],
           "connect", Null))

\* the application calls disconnect()
NDisconnect ==
    /\ disconnectCall = "idle"
    /\ NegBecomes(Stop([Neg EXCEPT
                           !.t = [SetState(Trans, "disconnecting") EXCEPT
                                     !.disconnectCall = "media"]],
                       "disconnect"))

\* mediaManager.disconnect() returns or throws in a suspended stop()
NStopResumed ==
    \E i \in 1..Len(stops), threw \in BOOLEAN :
        NegBecomes(StopResumed(Neg, i, threw))

\* the fetch of a pending negotiate() settles
NResponse ==
    \E i \in 1..Len(fetches),
       outcome \in {"answer", "error", "network-error"} :
        \E applies \in Applies(Neg, fetches[i]) :
            NegBecomes(Response(Neg, i, outcome, applies))

\* the data channel of this.pc opens
NDataChannelOpened ==
    /\ peer # Null
    /\ pcs[peer].negotiated
    /\ channel = "connecting"
    /\ NegBecomes(DataChannelOpenListener(Neg, peer))

\* the 'close' event of a closed data channel is delivered
NDataChannelClosed ==
    \E i \in dcClosing : NegBecomes(DataChannelCloseListener(Neg, i))

\* this.pc reports iceConnectionState 'failed', or is still 'disconnected'
\* five seconds after it said so
NIceFailed ==
    /\ peer # Null
    /\ pcs[peer].negotiated
    /\ NegBecomes(AttemptReconnection(Neg, TRUE))

\* the server sends the signalling message 'renegotiate'
NRenegotiate ==
    /\ peer # Null
    /\ channel = "open"
    /\ NegBecomes(SmallWebRTCHandleMessage(Neg, Renegotiate))

\* the data channel delivers any other message
NMessage ==
    /\ peer # Null
    /\ channel = "open"
    /\ \E m \in InboundMessages \ {Renegotiate} :
          NegBecomes(SmallWebRTCHandleMessage(Neg, m))

\* a retry timer set by negotiate()'s catch fires
NRetryTimer ==
    /\ retryTimers > 0
    /\ NegBecomes(AttemptReconnection([Neg EXCEPT !.retryTimers = @ - 1],
                                      TRUE))

\* the media manager reports a new local track
NTrackReplaced ==
    /\ peer # Null
    /\ \E i \in (1..2) \cap DOMAIN pcs[peer].transceivers, track \in Tracks :
           /\ pcs[peer].transceivers[i].track # track
           /\ NegBecomes([Neg EXCEPT
                             !.pcs[peer] = ReplaceTrack(@, i, track)])

NegotiatorNext ==
    \/ NConnect
    \/ NDisconnect
    \/ NStopResumed
    \/ NResponse
    \/ NDataChannelOpened
    \/ NIceFailed
    \/ NRenegotiate
    \/ NRetryTimer
    \/ NTrackReplaced

NegotiatorInit ==
    /\ ChanInit(0, {0}, {DEFAULT_RECONNECT_INTERVAL}, {"null"})
    /\ TransInit({"smallwebrtc"})
    /\ ~micEnabled
    /\ RecInit({FALSE})
    /\ NegInit
    /\ NoDaily
    /\ NoSdp
    /\ NoExt

NegotiatorSpec == NegotiatorInit /\ [][NegotiatorNext]_vars

\* the negotiator with the 'close' events of its data channels
DataChannelNext ==
    \/ NConnect
    \/ NDisconnect
    \/ NStopResumed
    \/ NResponse
    \/ NDataChannelOpened
    \/ NDataChannelClosed
    \/ NIceFailed
    \/ NRetryTimer

DataChannelSpec == NegotiatorInit /\ [][DataChannelNext]_vars

\* ======================================================= the DailyTransport
\* DailyTransport (part_006) on its call object this._daily.  The call object
\* is the environment: join() and room() resolve or reject, leave() resolves
\* with 'left-meeting' emitted, and in a meeting it emits 'track-started',
\* 'app-message' and 'error'.  An emitted event runs every listener that is
\* registered for it, in the order of registration.
\* bufferLocalAudioUntilBotReady is left at its default, false.

\* initialize() calls, readyHandlers registered and remote tracks followed
MaxInitialize == 2
MaxReadyHandlers == 2
MaxRemoteTracks == 2

Daily ==
    [t |-> Trans, listeners |-> listeners, readyHandlers |-> readyHandlers,
     meeting |-> meeting, initialized |-> initialized,
     remoteTracks |-> remoteTracks, readySent |-> readySent,
     readyCalled |-> readyCalled,
     dispatched |-> 0, dailyOp |-> "none", received |-> NoMessage,
     forwarded |-> 0]

DailyBecomes(d) ==
    /\ d.listeners <= MaxInitialize
    /\ d.readyHandlers <= MaxReadyHandlers
    /\ d.remoteTracks <= MaxRemoteTracks
    /\ TAssign(d.t)
    /\ listeners' = d.listeners
    /\ readyHandlers' = d.readyHandlers
    /\ meeting' = d.meeting
    /\ initialized' = d.initialized
    /\ remoteTracks' = d.remoteTracks
    /\ readySent' = d.readySent
    /\ readyCalled' = d.readyCalled
    /\ dispatched' = d.dispatched
    /\ dailyOp' = d.dailyOp
    /\ received' = d.received
    /\ forwarded' = d.forwarded
    /\ UNCHANGED <<recVars, negVars, sdpVars, extVars>>

\* the step is the operation name
DailyRan(d, name) == DailyBecomes([d EXCEPT !.dailyOp = name])

\* attachEventListeners(): one more listener on each event of the call object
AttachEventListeners(d) == [d EXCEPT !.listeners = @ + 1]

\* DailyTransport.initialize(options, messageHandler)
DailyInitialize(d) ==
    LET u == [AttachEventListeners(d) EXCEPT !.initialized = TRUE]
    IN  [u EXCEPT !.t = SetState(@, "disconnected")]

\* DailyTransport.connect(), to its suspension in join()
DailyConnect(d) ==
    IF d.t.aborted
    THEN [d EXCEPT !.t = SettleCall(@, "connect", "resolved")]
    ELSE [d EXCEPT !.t = [SetState(@, "connecting") EXCEPT
                             !.connectCall = "join"],
                   !.meeting = "joining",
                   !.remoteTracks = 0,
                   !.readySent = 0,
                   !.readyCalled = FALSE]

\* join() resolves: joined, connect() is suspended in room()
DailyJoined(d) ==
    [d EXCEPT !.t.connectCall = "room", !.meeting = "joined"]

\* room() resolves and connect() runs to its end
DailyConnected(d) ==
    LET u == [d.t EXCEPT !.connectCall = "idle"]
    IN  [d EXCEPT !.t = SettleCall(
                            IF u.aborted THEN u
                            ELSE Callback(SetState(u, "connected"),
                                          "onConnected"),
                            "connect", "resolved")]

\* join() or room() rejects: the catch of connect()
DailyJoinFailed(d) ==
    [d EXCEPT !.t = SettleCall([SetState(@, "error") EXCEPT
                                   !.connectCall = "idle"],
                               "connect", "rejected")]

\* sendReadyMessage(), to its return: readyHandler is registered
SendReadyMessage(d) == [d EXCEPT !.readyHandlers = @ + 1]

\* DailyTransport.handleTrackStarted(ev), for a camera or microphone track
DailyHandleTrackStarted(d) ==
    [d EXCEPT !.t = Callback(@, "onTrackStarted"), !.dispatched = @ + 1]

\* readyHandler(ev) of one sendReadyMessage() call
ReadyHandler(d, local) ==
    IF local THEN d
    ELSE [d EXCEPT !.t = SettleCall(SetState(@, "ready"),
                                    "sendReadyMessage", "resolved"),
                   !.readySent = @ + 1,
                   !.readyHandlers = @ - 1]

\* DailyTransport.handleAppMessage(ev)
HandleAppMessage(d, m) ==
    IF m.label = "rtvi-ai" THEN [d EXCEPT !.forwarded = @ + 1] ELSE d

\* handleLeftMeeting()
HandleLeftMeeting(d) ==
    [d EXCEPT !.t = Callback(SetState(@, "disconnected"), "onDisconnected")]

\* handleFatalError(ev)
HandleFatalError(d) ==
    [d EXCEPT !.t = Callback(SetState(@, "error"), "onError")]

\* the call object emits an event: every registered listener runs, those of
\* attachEventListeners() first and a readyHandler after them
RECURSIVE TrackStartedEvent(_, _, _, _)
TrackStartedEvent(d, local, k, r) ==
    IF k > 0
    THEN TrackStartedEvent(DailyHandleTrackStarted(d), local, k - 1, r)
    ELSE IF r > 0
         THEN TrackStartedEvent(ReadyHandler(d, local), local, k, r - 1)
         ELSE d

RECURSIVE AppMessageEvent(_, _, _)
AppMessageEvent(d, m, k) ==
    IF k = 0 THEN d ELSE AppMessageEvent(HandleAppMessage(d, m), m, k - 1)

RECURSIVE LeftMeetingEvent(_, _)
LeftMeetingEvent(d, k) ==
    IF k = 0 THEN d ELSE LeftMeetingEvent(HandleLeftMeeting(d), k - 1)

RECURSIVE ErrorEvent(_, _)
ErrorEvent(d, k) ==
    IF k = 0 THEN d ELSE ErrorEvent(HandleFatalError(d), k - 1)

\* DailyTransport.disconnect(), to its suspension in leave()
DailyDisconnect(d) ==
    [d EXCEPT !.t = [SetState(@, "disconnecting") EXCEPT
                        !.disconnectCall = "leave"],
              !.meeting = IF @ \in {"joining", "joined"} THEN "leaving"
                          ELSE @]

\* leave() resolves, 'left-meeting' emitted if a meeting was left
DailyLeft(d) ==
    LET u == IF d.meeting = "leaving"
             THEN LeftMeetingEvent([d EXCEPT !.meeting = "left"],
                                   d.listeners)
             ELSE d
    IN  [u EXCEPT !.t = SettleCall([@ EXCEPT !.disconnectCall = "idle"],
                                   "disconnect", "resolved")]

\* the messages the call object delivers: objects, whatever their fields
AppMessages == SignallingMessages \cup LabelledMessages

\* A DailyTransport as constructed
DailyInit ==
    /\ TransInit({"daily"})
    /\ received = NoMessage
    /\ forwarded = 0
    /\ listeners = 0
    /\ readyHandlers = 0
    /\ meeting = "new"
    /\ initialized = FALSE
    /\ remoteTracks = 0
    /\ readySent = 0
    /\ readyCalled = FALSE
    /\ dispatched = 0
    /\ dailyOp = "none"

\* ----------------------------------------------------------- Daily actions
\* the application calls initialize()
DInitialize ==
    /\ transport = "daily"
    /\ connectCall = "idle" /\ disconnectCall = "idle"
    /\ DailyRan(DailyInitialize(Daily), "initialize")

\* the application calls connect() with a signal that is aborted or not
DConnect ==
    /\ transport = "daily"
    /\ initialized
    /\ state \notin {"connecting", "connected", "ready"}
    /\ connectCall = "idle" /\ disconnectCall = "idle"
    /\ meeting \in {"new", "left", "error"}
    /\ \E a \in BOOLEAN :
          DailyRan(DailyConnect([Daily EXCEPT !.t.aborted = a]), "connect")

\* the application aborts the signal of the pending connect()
DAbort ==
    /\ transport = "daily"
    /\ connectCall \in {"join", "room"}
    /\ ~aborted
    /\ DailyRan([Daily EXCEPT !.t.aborted = TRUE], "abort")

\* join() resolves
DJoined ==
    /\ connectCall = "join"
    /\ meeting = "joining"
    /\ DailyRan(DailyJoined(Daily), "joined")

\* room() resolves
DConnected ==
    /\ connectCall = "room"
    /\ DailyRan(DailyConnected(Daily), "connected")

\* join() or room() rejects
DJoinFailed ==
    /\ connectCall \in {"join", "room"}
    /\ DailyRan(DailyJoinFailed([Daily EXCEPT
                                    !.meeting = IF @ = "joining"
                                                THEN "error" ELSE @]),
                "join-failed")

\* the application calls sendReadyMessage(), as it does once for a
\* connect() that has resolved
DSendReadyMessage ==
    /\ transport = "daily"
    /\ state = "connected"
    /\ ~readyCalled
    /\ DailyRan(SendReadyMessage([Daily EXCEPT !.readyCalled = TRUE]),
                "sendReadyMessage")

\* the call object emits 'track-started' for a local or a remote track
DTrackStarted ==
    /\ meeting = "joined"
    /\ \E local \in BOOLEAN :
          DailyRan(TrackStartedEvent(
                       [Daily EXCEPT !.remoteTracks =
                                         IF local THEN @ ELSE @ + 1],
                       local, listeners, readyHandlers),
                   IF local THEN "local-track" ELSE "remote-track")

\* the call object emits 'app-message'
DAppMessage ==
    /\ meeting = "joined"
    /\ \E m \in AppMessages :
          DailyRan(AppMessageEvent([Daily EXCEPT !.received = m], m,
                                   listeners),
                   "app-message")

\* the call object emits 'error'
DFatalError ==
    /\ meeting \in {"joined", "leaving"}
    /\ connectCall = "idle"
    /\ DailyRan(ErrorEvent([Daily EXCEPT !.meeting = "error"], listeners),
                "error")

\* the application calls disconnect()
DDisconnect ==
    /\ transport = "daily"
    /\ initialized
    /\ disconnectCall = "idle"
    /\ connectCall = "idle"
    /\ DailyRan(DailyDisconnect(Daily), "disconnect")

\* leave() resolves
DLeft ==
    /\ disconnectCall = "leave"
    /\ DailyRan(DailyLeft(Daily), "left")

DailyNext ==
    \/ DInitialize
    \/ DConnect
    \/ DAbort
    \/ DJoined
    \/ DConnected
    \/ DJoinFailed
    \/ DSendReadyMessage
    \/ DTrackStarted
    \/ DAppMessage
    \/ DFatalError
    \/ DDisconnect
    \/ DLeft

DailySpecInit ==
    /\ ChanInit(0, {0}, {DEFAULT_RECONNECT_INTERVAL}, {"null"})
    /\ DailyInit
    /\ RecInit({FALSE})
    /\ NegInit
    /\ NoSdp
    /\ NoExt

DailySpec == DailySpecInit /\ [][DailyNext]_vars

\* Either transport that receives labelled messages, with the messages
\* arriving: the SmallWebRTCTransport on its data channel, its local tracks
\* staying as they are, or the DailyTransport on its call object
DispatchInit ==
    \/ NegotiatorInit
    \/ DailySpecInit

SmallWebRTCNext ==
    \/ NConnect
    \/ NDisconnect
    \/ NStopResumed
    \/ NResponse
    \/ NDataChannelOpened
    \/ NIceFailed
    \/ NRenegotiate
    \/ NMessage
    \/ NRetryTimer

DispatchNext ==
    \/ transport = "smallwebrtc" /\ SmallWebRTCNext
    \/ transport = "daily" /\ DailyNext

DispatchSpec == DispatchInit /\ [][DispatchNext]_vars

\* ======================================================= the codec filter
\* SmallWebRTCTransport.sdpFilterCodec(kind, codec, realSdp).  An SDP is the
\* sequence of its lines as split("\n") leaves them: cr is the "\r" at the
\* end of a line, and the text after the last "\n" is an empty last line.
\* A line is an m= line (kind, pts), an a=rtpmap (pt, codec), an a=fmtp (pt,
\* and apt when its parameters are just "apt=<pt>"), an a=rtcp-fb (pt) or
\* any other line.  An encoding is the sequence of the parts of its name
\* between the slashes.
Line(tag, kind, pt, codec, apt, pts, cr) ==
    [tag |-> tag, kind |-> kind, pt |-> pt, codec |-> codec, apt |-> apt,
     pts |-> pts, cr |-> cr]

MLine(kind, pts) == Line("m", kind, Undefined, <<>>, Undefined, pts, TRUE)
Rtpmap(pt, codec) == Line("rtpmap", "", pt, codec, Undefined, <<>>, TRUE)
Fmtp(pt, apt) == Line("fmtp", "", pt, <<>>, apt, <<>>, TRUE)
RtcpFb(pt) == Line("rtcp-fb", "", pt, <<>>, Undefined, <<>>, TRUE)
OtherLine == Line("other", "", Undefined, <<>>, Undefined, <<>>, TRUE)
EmptyLine == Line("other", "", Undefined, <<>>, Undefined, <<>>, FALSE)

\* x is among the elements of the sequence q: q.includes(x)
Includes(q, x) == \E i \in 1..Len(q) : q[i] = x

\* line.match(codecRegex): the rtpmap's encoding begins with the codec
MatchesCodec(line, codec) ==
    /\ line.tag = "rtpmap"
    /\ Len(codec) <= Len(line.codec)
    /\ SubSeq(line.codec, 1, Len(codec)) = codec

\* line.match(rtxRegex): "a=fmtp:<pt> apt=<pt>\r" and nothing after it
MatchesRtx(line) == line.tag = "fmtp" /\ line.apt # Undefined /\ line.cr

\* line.match(skipRegex)
MatchesSkip(line) == line.tag \in {"fmtp", "rtcp-fb", "rtpmap"}

\* isKind once line i is looked at
RECURSIVE IsKind(_, _, _)
IsKind(lines, kind, i) ==
    IF i = 0 THEN FALSE
    ELSE IF lines[i].tag = "m" THEN lines[i].kind = kind
    ELSE IsKind(lines, kind, i - 1)

\* allowed after the first loop has looked at lines 1..i
RECURSIVE Allowed(_, _, _, _)
Allowed(lines, kind, codec, i) ==
    IF i = 0 THEN <<>>
    ELSE LET before == Allowed(lines, kind, codec, i - 1)
             named == IF MatchesCodec(lines[i], codec)
                      THEN Append(before, lines[i].pt) ELSE before
         IN  IF ~IsKind(lines, kind, i) THEN before
             ELSE IF MatchesRtx(lines[i]) /\ Includes(named, lines[i].apt)
                  THEN Append(named, lines[i].pt)
                  ELSE named

\* sdp after the second loop has looked at lines 1..i; the rewritten m= line
\* loses its "\r" to the \s* of videoRegex
RECURSIVE Filtered(_, _, _, _)
Filtered(lines, kind, allowed, i) ==
    IF i = 0 THEN <<>>
    ELSE LET before == Filtered(lines, kind, allowed, i - 1)
             line == lines[i]
         IN  IF ~IsKind(lines, kind, i) THEN Append(before, line)
             ELSE IF MatchesSkip(line) /\ ~Includes(allowed, line.pt)
                  THEN before
                  ELSE IF line.tag = "m"
                       THEN Append(before, [line EXCEPT !.pts = allowed,
                                                        !.cr = FALSE])
                       ELSE Append(before, line)

SdpFilterCodec(kind, codec, lines) ==
    Filtered(lines, kind, Allowed(lines, kind, codec, Len(lines)),
             Len(lines))

\* The offers: a session line, an audio and a video section and the empty
\* last line.  The attribute lines of the audio section come in any order,
\* as SDP lets them; those of the video section come payload type by
\* payload type.
Opus == <<"opus", "48000", "2">>
AudioRtx == <<"rtx", "48000">>
PCMU == <<"PCMU", "8000">>
VP8 == <<"VP8", "90000">>
VideoRtx == <<"rtx", "90000">>

AudioAttributes ==
    {Rtpmap(111, Opus), Rtpmap(63, AudioRtx), Fmtp(63, 111),
     Rtpmap(0, PCMU), RtcpFb(0)}

Orders(S) ==
    {q \in [1..Cardinality(S) -> S] :
        \A i, j \in 1..Cardinality(S) : i # j => q[i] # q[j]}

VideoSection ==
    <<MLine("video", <<96, 97, 98>>), OtherLine, Rtpmap(96, VP8),
      RtcpFb(96), Rtpmap(97, VideoRtx), Fmtp(97, 96),
      Rtpmap(98, <<"H264", "90000">>), Fmtp(98, Undefined), EmptyLine>>

Offers ==
    {<<OtherLine, MLine("audio", <<111, 63, 0>>)>> \o attributes
        \o VideoSection : attributes \in Orders(AudioAttributes)}

\* what setAudioCodec() / setVideoCodec() are given
Codecs == {<<"opus">>, Opus, PCMU, <<"VP8">>, VP8}

SdpInit ==
    /\ ChanInit(0, {0}, {DEFAULT_RECONNECT_INTERVAL}, {"null"})
    /\ NoTransport
    /\ RecInit({FALSE})
    /\ NegInit
    /\ NoDaily
    /\ NoExt
    /\ realSdp \in Offers
    /\ sdpKind \in {"audio", "video"}
    /\ sdpCodec \in Codecs
    /\ sdp = <<>>

\* negotiate() filters the offer
SdpFiltered ==
    /\ realSdp # <<>>
    /\ sdp = <<>>
    /\ sdp' = SdpFilterCodec(sdpKind, sdpCodec, realSdp)
    /\ UNCHANGED <<realSdp, sdpKind, sdpCodec>>
    /\ UNCHANGED <<chanVars, transVars, recVars, negVars, msgVars,
                   dailyVars, extVars>>

SdpNext == SdpFiltered

SdpSpec == SdpInit /\ [][SdpNext]_vars

\* ==================================================== the duplex transport
\* GeminiLiveWebsocketTransport over its ReconnectingWebSocket.  The events
\* the channel emits run the listeners attachLLMListeners() registered, inside
\* the handler that emits them; a settled connect() promise resumes
\* connectLLM() right after that handler.

\* one listener of attachLLMListeners(): 'error', 'connection-timeout',
\* 'close' and 'reconnect-failed' call connectionError(); 'open' does nothing
\* and nothing listens to 'reconnecting'
LLMListener(t, e) ==
    IF e \in {"error", "connection-timeout", "close", "reconnect-failed"}
    THEN ConnectionError([t EXCEPT !.channel = "closed"])
    ELSE t

RECURSIVE LLMListeners(_, _)
LLMListeners(t, events) ==
    IF events = <<>> THEN t
    ELSE LLMListeners(LLMListener(t, Head(events)), Tail(events))

\* connect() after `await this._ws.connect()` in connectLLM(): the setup
\* message is sent and the connection reported, or the rejection is rethrown
\* with the state 'error'
ConnectLLMResumed(c, t) ==
    IF t.connectCall # "llm" \/ c.settled = {} THEN <<c, t>>
    ELSE IF \E s \in DOMAIN c.socks : <<s, "resolved">> \in c.settled
    THEN <<Send(c), LLMConnected(t)>>
    ELSE <<c, LLMConnectFailed(t)>>

\* the channel handler left the channel as c: the listeners, then the
\* resumption
Duplex(c, name) ==
    LET r == ConnectLLMResumed([c EXCEPT !.op = name],
                               [LLMListeners(Trans, c.emitted) EXCEPT
                                   !.channelTimeout = FALSE])
    IN  /\ ChanAssign(r[1])
        /\ TSet(r[2])
        /\ UNCHANGED <<recVars, negVars, msgVars, dailyVars, sdpVars, extVars>>

\* initializeLLM(): a ReconnectingWebSocket as init() leaves it, with
\* keepAliveInterval set to 0 and no shouldRetryFn
DuplexInit ==
    /\ ChanInitWith(MaxSockets, {0}, {DEFAULT_RECONNECT_INTERVAL}, {"null"},
                    0)
    /\ TransInit({"websocket"})
    /\ RecInit({FALSE})
    /\ NegInit
    /\ NoDaily
    /\ NoSdp
    /\ NoExt

\* the application calls connect(): connectLLM() calls this._ws.connect()
GConnect ==
    /\ state \notin {"connecting", "connected", "ready"}
    /\ ~Connecting(Trans) /\ ~Disconnecting(Trans)
    /\ initializeCall = "idle"
    /\ \A s \in SockIds : socks[s].promise # "pending"
    /\ \E s \in SockIds :
          /\ Fresh(s)
          /\ ChanAssign([Connect(Chan, s) EXCEPT !.op = "connect"])
          /\ TSet([TransportConnect(Trans) EXCEPT !.channelTimeout = FALSE,
                                                  !.channel = "connecting"])
          /\ UNCHANGED <<recVars, negVars, msgVars, dailyVars, sdpVars, extVars>>

\* the handshake of socket s is done: 'open'
GWsOpened ==
    \E s \in SockIds :
        /\ socks[s].readyState = "CONNECTING"
        /\ Duplex(OpenListener([Chan EXCEPT !.socks[s].readyState = "OPEN"],
                               s), "ws-open")

\* the connection of socket s fails: 'error', then 'close'
GWsFailed ==
    \E s \in SockIds :
        /\ socks[s].readyState \in {"CONNECTING", "OPEN", "CLOSING"}
        /\ Duplex(Collected(CloseListener(
                     ErrorListener([Chan EXCEPT
                                       !.socks[s].readyState = "CLOSED"],
                                   s), s), s),
                  "ws-fail")

\* the connection of socket s closes after it had opened: 'close'
GWsClosed ==
    \E s \in SockIds :
        /\ socks[s].readyState \in {"OPEN", "CLOSING"}
        /\ Duplex(Collected(CloseListener(
                     [Chan EXCEPT !.socks[s].readyState = "CLOSED"], s), s),
                  "ws-close")

\* the server's setupComplete arrives: 'message', and the state is 'ready'
GSetupComplete ==
    \E s \in SockIds :
        /\ socks[s].readyState = "OPEN"
        /\ ChanAssign([HandleMessage(Chan) EXCEPT !.op = "ws-message"])
        /\ TSet(SetState(Trans, "ready"))
        /\ UNCHANGED <<recVars, negVars, msgVars, dailyVars, sdpVars, extVars>>

\* the connection-timeout timer fires
GConnectionTimeoutFired ==
    \E t \in connTimers :
        Duplex(ConnectionTimedOut([Chan EXCEPT !.connTimers = @ \ {t}]),
               "connection-timeout")

\* the application calls disconnect()
GDisconnect ==
    /\ ~Disconnecting(Trans)
    /\ TBecomes(TransportDisconnect(Trans))

\* disconnect() resumes: after mediaManager.disconnect() it calls
\* disconnectLLM(), which is this._ws.close(); after that it is done
GDisconnectResumed ==
    /\ Disconnecting(Trans)
    /\ ChanAssign(IF disconnectCall = "media"
                  THEN [InFlightMarked(Close(Chan)) EXCEPT !.op = "close"]
                  ELSE [Chan EXCEPT !.op = "none"])
    /\ TSet(DisconnectResumed(Trans))
    /\ UNCHANGED <<recVars, negVars, msgVars, dailyVars, sdpVars, extVars>>

DuplexNext ==
    \/ TInitDevices
    \/ TMediaInitialized
    \/ TTrackStarted
    \/ GConnect
    \/ GWsOpened
    \/ GWsFailed
    \/ GWsClosed
    \/ GSetupComplete
    \/ GConnectionTimeoutFired
    \/ GDisconnect
    \/ GDisconnectResumed

DuplexSpec == DuplexInit /\ [][DuplexNext]_vars

\* ------------------------------------------------------------------------
\* The MediaStreamRecorder when its callers do not wait for each other: each
\* await of begin(), record() and end() suspends the call, and another
\* 'track-started' handler may run before it resumes.

MaxTrackEvents == 4

Msr ==
    [processor |-> msrProcessor, recording |-> msrRecording,
     created |-> msrCreated, live |-> msrLive, calls |-> msrCalls,
     tracks |-> msrTracks]

MsrBecomes(m) ==
    /\ msrProcessor' = m.processor
    /\ msrRecording' = m.recording
    /\ msrCreated' = m.created
    /\ msrLive' = m.live
    /\ msrCalls' = m.calls
    /\ msrTracks' = m.tracks
    /\ UNCHANGED <<chanVars, transVars, recVars, negVars, msgVars, dailyVars,
                   sdpVars, playVars, queueVars>>

MsrInit ==
    /\ ChanInit(0, {0}, {DEFAULT_RECONNECT_INTERVAL}, {"null"})
    /\ NoTransport
    /\ RecInit({FALSE})
    /\ NegInit
    /\ NoDaily
    /\ NoSdp
    /\ NoMsr
    /\ NoPlay
    /\ NoQueue

\* getStatus()
MsrGetStatus(m) ==
    IF m.processor = Null THEN "ended"
    ELSE IF ~m.recording THEN "paused"
    ELSE "recording"

\* a call suspended at an await: where it waits, the processor it captured,
\* and what its caller does once it returns
MsrCall(at, proc, next) == [at |-> at, proc |-> proc, next |-> next]

\* begin(): throws when a processor exists, otherwise waits for addModule()
MsrBegin(m, next) ==
    IF m.processor # Null THEN m
    ELSE [m EXCEPT !.calls = Append(@, MsrCall("addModule", Null, next))]

\* record(), as _startRecording() calls it without waiting: throws without a
\* processor or when recording, otherwise waits for the 'start' receipt
MsrRecord(m) ==
    IF m.processor = Null \/ m.recording THEN m
    ELSE [m EXCEPT !.calls = Append(@, MsrCall("start", m.processor, "none"))]

\* end(): throws without a processor, otherwise keeps the processor in
\* _processor and waits for the 'stop' receipt
MsrEnd(m, next) ==
    IF m.processor = Null THEN m
    ELSE [m EXCEPT !.calls = Append(@, MsrCall("stop", m.processor, next))]

\* begin() after addModule(): the AudioWorkletNode is created and connected
\* and becomes this.processor
MsrBeginResumed(m) ==
    [m EXCEPT !.created = @ + 1,
              !.live = @ \cup {m.created + 1},
              !.processor = m.created + 1]

\* end() after the 'export' receipt: this.processor is disconnected, which
\* throws if another end() has already set it to null
MsrEndResumed(m) ==
    IF m.processor = Null THEN m
    ELSE [m EXCEPT !.live = @ \ {m.processor}, !.processor = Null]

RemoveAt(s, i) == SubSeq(s, 1, i - 1) \o SubSeq(s, i + 1, Len(s))

\* the call at position i resumes and runs to its next await, and when it
\* returns its caller goes on
MsrResumed(m, i) ==
    LET c == m.calls[i]
        rest == [m EXCEPT !.calls = RemoveAt(@, i)]
    IN  CASE c.at = "addModule" ->
                IF c.next = "record" THEN MsrRecord(MsrBeginResumed(rest))
                ELSE MsrBeginResumed(rest)
          [] c.at = "start" -> [rest EXCEPT !.recording = TRUE]
          [] c.at = "stop" ->
                [rest EXCEPT !.recording = FALSE,
                             !.calls = Append(@, [c EXCEPT !.at = "export"])]
          [] c.at = "export" ->
                IF rest.processor # Null /\ c.next = "begin"
                THEN MsrBegin(MsrEndResumed(rest), "record")
                ELSE MsrEndResumed(rest)

\* _handleTrackStarted() for a local audio track of a connected manager
MsrHandleTrackStarted(m) ==
    LET status == MsrGetStatus(m)
        counted == [m EXCEPT !.tracks = @ + 1]
    IN  CASE status = "ended" -> MsrBegin(counted, "record")
          [] status = "paused" -> MsrRecord(counted)
          [] OTHER -> MsrEnd(counted, "begin")

\* what a suspended call waits for: the module to load, or a receipt
AwaitKind(c) == IF c.at = "addModule" THEN "module" ELSE "receipt"

\* a 'track-started' event arrives
MTrackStarted ==
    /\ msrTracks < MaxTrackEvents
    /\ MsrBecomes(MsrHandleTrackStarted(Msr))

\* a suspended call resumes; calls waiting for the same kind of thing resume
\* in the order they were suspended
MResumed ==
    \E i \in 1..Len(msrCalls) :
        /\ \A j \in 1..(i - 1) :
              AwaitKind(msrCalls[j]) # AwaitKind(msrCalls[i])
        /\ MsrBecomes(MsrResumed(Msr, i))

MsrNext ==
    \/ MTrackStarted
    \/ MResumed

MsrSpec == MsrInit /\ [][MsrNext]_vars

\* ------------------------------------------------------------------------
\* The 'message' listener of the GeminiLiveWebsocketTransport: the audio of
\* the server's model turns is handed to the playback buffer under the id of
\* the bot's response.

MaxParts == 2
MaxBuffered == 3
MaxTurns == 3

\* inline data as the server sends it: base64, as a sequence of 6-bit digits
SampleData == {<<1, 2, 3, 4>>, <<60, 61, 62, 63>>}

\* a part of a model turn without inline data (text)
NoInlineData == <<>>

\* base64ToArrayBuffer(): atob() makes three bytes of every four digits
RECURSIVE Base64ToArrayBuffer(_)
Base64ToArrayBuffer(base64) ==
    IF Len(base64) < 4 THEN <<>>
    ELSE <<base64[1] * 4 + base64[2] \div 16,
           (base64[2] % 16) * 16 + base64[3] \div 4,
           (base64[3] % 4) * 64 + base64[4]>>
         \o Base64ToArrayBuffer(SubSeq(base64, 5, Len(base64)))

\* mergeBuffers(): a new buffer with the bytes of both; neither argument is
\* changed
mergeBuffers(leftBuffer, rightBuffer) == leftBuffer \o rightBuffer

\* the forEach over the parts of a model turn: the first part with inline
\* data becomes result; for every later one mergeBuffers() is called and what
\* it returns is dropped
RECURSIVE PartsResult(_, _)
PartsResult(parts, result) ==
    IF parts = <<>> THEN result
    ELSE IF Head(parts) = NoInlineData THEN PartsResult(Tail(parts), result)
    ELSE IF result # <<>>
         THEN LET merged == mergeBuffers(result,
                                         Base64ToArrayBuffer(Head(parts)))
              IN  PartsResult(Tail(parts), result)
         ELSE PartsResult(Tail(parts), Base64ToArrayBuffer(Head(parts)))

\* the decoded inline data of the parts, in order
RECURSIVE AudioParts(_)
AudioParts(parts) ==
    IF parts = <<>> THEN <<>>
    ELSE IF Head(parts) = NoInlineData THEN AudioParts(Tail(parts))
    ELSE <<Base64ToArrayBuffer(Head(parts))>> \o AudioParts(Tail(parts))

Play ==
    [botIsSpeaking |-> botIsSpeaking, botResponseID |-> botResponseID,
     buffered |-> buffered, serverTurn |-> serverTurn]

PlayBecomes(g) ==
    /\ botIsSpeaking' = g.botIsSpeaking
    /\ botResponseID' = g.botResponseID
    /\ buffered' = g.buffered
    /\ serverTurn' = g.serverTurn
    /\ UNCHANGED <<chanVars, transVars, recVars, negVars, msgVars, dailyVars,
                   sdpVars, msrVars, queueVars>>

PlayInit ==
    /\ ChanInit(0, {0}, {DEFAULT_RECONNECT_INTERVAL}, {"null"})
    /\ NoTransport
    /\ RecInit({FALSE})
    /\ NegInit
    /\ NoDaily
    /\ NoSdp
    /\ NoMsr
    /\ NoPlay
    /\ NoQueue

\* botStartedSpeaking()
BotStartedSpeaking(g) ==
    IF ~g.botIsSpeaking THEN [g EXCEPT !.botIsSpeaking = TRUE] ELSE g

\* botStoppedSpeaking()
BotStoppedSpeaking(g) ==
    IF g.botIsSpeaking THEN [g EXCEPT !.botIsSpeaking = FALSE] ELSE g

\* userStartedSpeaking(): the player is interrupted and the callback runs;
\* no field of the transport changes
UserStartedSpeaking(g) == g

\* the listener for a message with serverContent.modelTurn
OnModelTurn(g, parts) ==
    LET result == PartsResult(parts, <<>>)
        started == IF ~g.botIsSpeaking
                   THEN BotStartedSpeaking([g EXCEPT !.botResponseID = @ + 1])
                   ELSE g
    IN  IF result = <<>> THEN g
        ELSE [started EXCEPT
                 !.buffered = Append(@, [id |-> started.botResponseID,
                                         audio |-> result,
                                         parts |-> AudioParts(parts),
                                         turn |-> g.serverTurn])]

PartInputs == SampleData \cup {NoInlineData}

ModelTurns == UNION {[1..n -> PartInputs] : n \in 0..MaxParts}

\* the server sends a part of its turn's output
GModelTurn ==
    /\ Len(buffered) < MaxBuffered
    /\ \E parts \in ModelTurns : PlayBecomes(OnModelTurn(Play, parts))

\* the server finishes its turn and says turnComplete
GTurnComplete ==
    /\ serverTurn < MaxTurns
    /\ PlayBecomes([BotStoppedSpeaking(Play) EXCEPT !.serverTurn = @ + 1])

\* the user barges in: the server cancels its turn and says interrupted
GInterrupted ==
    /\ serverTurn < MaxTurns
    /\ PlayBecomes([UserStartedSpeaking(Play) EXCEPT !.serverTurn = @ + 1])

PlayNext ==
    \/ GModelTurn
    \/ GTurnComplete
    \/ GInterrupted

PlaySpec == PlayInit /\ [][PlayNext]_vars

\* ------------------------------------------------------------------------
\* The DailyTransport's queue of local audio: the recorder's chunks are queued
\* until the bot's first track starts, and then sent in batches.

MaxChunks == 12

\* const batchSize = 10
batchSize == 10

Queue ==
    [audioQueue |-> audioQueue, appMessages |-> appMessages,
     state |-> qState, recorder |-> qRecorder, captured |-> qCaptured]

QueueBecomes(q) ==
    /\ audioQueue' = q.audioQueue
    /\ appMessages' = q.appMessages
    /\ qState' = q.state
    /\ qRecorder' = q.recorder
    /\ qCaptured' = q.captured
    /\ UNCHANGED <<chanVars, transVars, recVars, negVars, msgVars, dailyVars,
                   sdpVars, msrVars, playVars>>

QueueInit ==
    /\ ChanInit(0, {0}, {DEFAULT_RECONNECT_INTERVAL}, {"null"})
    /\ NoTransport
    /\ RecInit({FALSE})
    /\ NegInit
    /\ NoDaily
    /\ NoSdp
    /\ NoMsr
    /\ NoPlay
    /\ NoQueue

\* btoa(String.fromCharCode(...)) of a buffer
Btoa(data) == [base64 |-> data]

\* _sendAudioBatch(): one raw-audio-batch message with the encoded buffers
SendAudioBatch(q, dataBatch) ==
    [q EXCEPT !.appMessages =
        Append(@, [type |-> "raw-audio-batch",
                   base64AudioBatch |->
                       [i \in 1..Len(dataBatch) |-> Btoa(dataBatch[i])]])]

\* handleUserAudioStream()
HandleUserAudioStream(q, data) ==
    [q EXCEPT !.audioQueue = Append(@, data)]

\* flushAudioQueue(): while the queue is not empty, up to batchSize buffers
\* are shifted off it and sent
RECURSIVE FlushAudioQueue(_)
FlushAudioQueue(q) ==
    IF Len(q.audioQueue) = 0 THEN q
    ELSE LET n == IF Len(q.audioQueue) < batchSize
                  THEN Len(q.audioQueue) ELSE batchSize
             batch == SubSeq(q.audioQueue, 1, n)
             shifted == [q EXCEPT !.audioQueue =
                                      SubSeq(@, n + 1, Len(@))]
         IN  FlushAudioQueue(SendAudioBatch(shifted, batch))

\* stopRecording(): end() is called and not waited for, unless getStatus()
\* says "ended", as it does while begin() has not returned
StopRecording(q) ==
    IF q.recorder \in {"ended", "beginning"} THEN q
    ELSE [q EXCEPT !.recorder = "stopping"]

\* the readyHandler of sendReadyMessage(), for a track of the bot
QReadyHandler(q) ==
    LET flushed == FlushAudioQueue([q EXCEPT !.state = "ready"])
        readied == [flushed EXCEPT
                       !.appMessages = Append(@, [type |-> "client-ready",
                                                  base64AudioBatch |-> <<>>])]
    IN  StopRecording(readied)

\* the local audio track starts: handleLocalAudioTrack() calls begin()
QLocalTrackStarted ==
    /\ qState # "ready"
    /\ qRecorder = "ended"
    /\ qCaptured = 0
    /\ QueueBecomes([Queue EXCEPT !.recorder = "beginning"])

\* begin() and record() have returned: the recorder records
QRecordingStarted ==
    /\ qRecorder = "beginning"
    /\ QueueBecomes([Queue EXCEPT !.recorder = "recording"])

\* a chunk of the processor reaches the chunk processor of record()
QChunk ==
    /\ qRecorder \in {"recording", "stopping"}
    /\ qCaptured < MaxChunks
    /\ QueueBecomes([HandleUserAudioStream(Queue, qCaptured + 1)
                         EXCEPT !.captured = @ + 1])

\* the bot's first track starts
QBotReady ==
    /\ qState = "connected"
    /\ QueueBecomes(QReadyHandler(Queue))

\* end() resumes after the receipts and disconnects the processor
QStopped ==
    /\ qRecorder = "stopping"
    /\ QueueBecomes([Queue EXCEPT !.recorder = "ended"])

QueueNext ==
    \/ QLocalTrackStarted
    \/ QRecordingStarted
    \/ QChunk
    \/ QBotReady
    \/ QStopped

QueueSpec == QueueInit /\ [][QueueNext]_vars

configVars == <<allowedReconnectAttempts, reconnectInterval,
                keepAliveTimeout, keepAliveInterval, shouldRetryFn>>

timerVars == <<keepIntervalID, keepTimers, connectionTimeoutID, connTimers,
               reconnectTimeoutID, reconnectTimers>>

MinOf(a, b) == IF a <= b THEN a ELSE b

\* base * decay^n, in units of 1/Scale ms
ExactWait(interval, n) ==
    interval * Pow(DecayNum, n) * Pow(DecayDen, MAX_RECONNECT_ATTEMPTS - n)

\* ms in units of 1/Scale ms
Ms(x) == x * Scale

\* this step delivers the unexpected close of a socket that had opened
Dropped == drops' = drops + 1

\* C1: the k-th consecutive post-connect drop schedules a reconnect after
\* base * decay^(k-1) while k <= maxReconnectAttempts (1000 ms, then
\* 1500 ms), and the drop after the last allowed reconnect emits one terminal
\* 'reconnect-failed' and leaves no reconnect scheduled.  (The application
\* has not asked to stop retrying.)
C1_TerminalAfterMaxFailures ==
    [][(Dropped /\ shouldRetryFn # "false") =>
          IF drops' <= allowedReconnectAttempts
          THEN /\ reconnectTimers' # {}
               /\ lastTimeout' = ExactWait(reconnectInterval, drops' - 1)
               /\ failures' = 0
          ELSE /\ reconnectTimers' = {}
               /\ failures' = 1]_vars

\* C2: the wait of a scheduled reconnect is min(base * decay^n, max) for the
\* attempt count n it was computed from, and the wait does not decrease
\* in n.
C2_BackoffIsClampedPower ==
    /\ reconnectTimeoutID # Null =>
          lastTimeout = MinOf(ExactWait(reconnectInterval,
                                        reconnectAttempts - 1),
                              Ms(MAX_RECONNECT_INTERVAL))
    /\ \A n \in 0..(MAX_RECONNECT_ATTEMPTS - 3) :
          BackoffTimeout(reconnectInterval, n)
              <= BackoffTimeout(reconnectInterval, n + 1)

\* C2 witness: base 20000 ms, third reconnect scheduled: 45000 ms clamped
\* to the maximum
C2_Witness ==
    /\ reconnectInterval = 20000
    /\ reconnectAttempts = 3
    /\ reconnectTimeoutID # Null
    /\ lastTimeout = Ms(MAX_RECONNECT_INTERVAL)

C4_SupersededAttemptIsInert ==
    [][\A s \in SockIds :
          (/\ socks[s].readyState = "CONNECTING"
           /\ socks'[s].readyState # "CONNECTING"
           /\ \E t \in SockIds : t > s /\ socks[t].readyState # "NONE") =>
             /\ ws' = ws
             /\ UNCHANGED timerVars
             /\ reconnectAttempts' = reconnectAttempts
             /\ \A x \in settled' : x[1] = s]_vars

\* C5: an attempt that was in flight when close() was called never becomes
\* the channel's current connection and its promise is never resolved.
C5_CloseCancelsInFlightAttempt ==
    \A s \in SockIds :
        socks[s].closeCalled =>
            /\ ws # s
            /\ socks[s].promise \in {"pending", "SIG_CONNECTION_CANCELED"}

\* C6: right after close() no connection-timeout, reconnect or keep-alive
\* timer is armed, and while the channel is closed only the application's
\* connect() creates a socket.
C6_CloseLeavesNothingArmed ==
    [][/\ op' = "close" =>
             connTimers' = {} /\ reconnectTimers' = {} /\ keepTimers' = {}
       /\ (disconnected /\ \E s \in SockIds :
               socks[s].readyState = "NONE" /\ socks'[s].readyState # "NONE")
             => op' = "connect"]_vars

\* C7: a keep-alive tick on an open channel that has received nothing for
\* more than the staleness timeout closes the socket and, attempts
\* remaining, schedules a reconnect.
C7_StaleTickReconnects ==
    [][(/\ op' = "keep-alive-tick"
        /\ WsIsOpen(Chan)
        /\ now - lastMsgRecvTime > keepAliveTimeout
        /\ reconnectAttempts < allowedReconnectAttempts) =>
          /\ ws' = Null
          /\ socks'[ws].readyState # "OPEN"
          /\ reconnectTimers' # {}]_vars

\* C8: with no shouldRetryFn set, a post-connect drop with attempts
\* remaining schedules a reconnect.
C8_UnsetRetryFnAlwaysRetries ==
    [][(/\ Dropped
        /\ shouldRetryFn = "null"
        /\ reconnectAttempts < allowedReconnectAttempts) =>
          /\ reconnectTimers' # {}
          /\ reconnectAttempts' = reconnectAttempts + 1]_vars

\* C9: send() without a current open socket hands nothing to a socket, does
\* not touch the last-sent timestamp and leaves the channel as it was.
C9_SendNotOpenIsNoOp ==
    [][(op' = "send" /\ ~WsIsOpen(Chan)) =>
          /\ wire' = 0
          /\ lastMsgSendTime' = lastMsgSendTime
          /\ emitted' = <<>>
          /\ settled' = {}
          /\ UNCHANGED <<ws, socks, disconnected, timerVars, configVars,
                         lastTimeout, reconnectAttempts, lastMsgRecvTime,
                         now, drops, failures>>]_vars

\* C9 witness: send() ran while the only socket was still connecting
C9_Witness ==
    /\ op = "send"
    /\ ws = Null
    /\ wire = 0
    /\ lastMsgSendTime = Undefined
    /\ \E s \in SockIds : socks[s].readyState = "CONNECTING"

\* C10: for every transport, whenever a disconnect() call settles the
\* transport state is 'disconnected': the call never fails leaving the
\* state 'disconnecting' and never finishes in another state.
C10_DisconnectEndsDisconnected ==
    \A outcome \in {"resolved", "rejected"} :
        <<"disconnect", outcome>> \in settledCalls => state = "disconnected"

\* the last step invoked the callback
Invoked(name) == \E i \in 1..Len(called) : called[i] = name

\* C11: a transport whose state is 'error' reaches the state 'disconnected'
\* with onDisconnected invoked, the application calling nothing.
C11_ErrorLeadsToDisconnected ==
    (state = "error") ~> (state = "disconnected" /\ Invoked("onDisconnected"))

\* C12: sendMessage() while the underlying channel is not open does not
\* throw and sends nothing (the message is dropped, or is none the transport
\* forwards), and the rest of the transport is as it was.
C12_SendMessageNotOpenDrops ==
    [][(sendResult' # "none" /\ channel # "open") =>
          /\ sendResult' \in {"dropped", "ignored"}
          /\ UNCHANGED <<transport, state, pc, micEnabled, mmInitialized,
                         mmConnected, connectResolve, processor, recording,
                         initializeCall, connectCall, disconnectCall,
                         channelTimeout, channel>>
          /\ settledCalls' = {}
          /\ called' = <<>>]_vars

\* the concatenation of the buffers of a sequence of deliveries
RECURSIVE Concatenation(_)
Concatenation(ds) ==
    IF ds = <<>> THEN <<>>
    ELSE Concatenation(SubSeq(ds, 1, Len(ds) - 1)) \o ds[Len(ds)].data

\* C13: once pause() or end() has returned, the buffers delivered to the
\* chunk callback in this session, put end to end, are exactly the bytes
\* received from the worklet in this session: none dropped, none twice, and
\* the partial buffer flushed.
C13_DeliveredIsCaptured ==
    (lastCall.name \in {"pause", "end"} /\ ~lastCall.threw) =>
        Concatenation(delivered) = Bytes(1, captured)

\* the delivered buffer is shorter than the chunk size in force
Short(d) == Len(d.data) < d.size

C15_StatusMachine ==
    [][lastCall'.name # "none" =>
          LET c == lastCall'
              after == GetStatus([processor |-> processor',
                                  recording |-> recording'])
          IN  /\ c.threw => after = c.from
              /\ c.name = "begin" =>
                     /\ c.from # "ended" => c.threw
                     /\ ~c.threw => after = "paused"
              /\ c.name = "record" =>
                     /\ c.threw <=> c.from # "paused"
                     /\ ~c.threw => after = "recording"
              /\ c.name = "pause" =>
                     /\ c.threw <=> c.from # "recording"
                     /\ ~c.threw => after = "paused"
              /\ c.name = "end" =>
                     /\ c.threw <=> c.from = "ended"
                     /\ ~c.threw => after = "ended"]_vars

\* C16: the peer connection in use has exactly two transceivers, the audio
\* one first and the video one second, whatever renegotiations, recoveries
\* and track replacements came before.
C16_TwoTransceivers ==
    peer # Null =>
        /\ Len(pcs[peer].transceivers) = 2
        /\ pcs[peer].transceivers[1].kind = "audio"
        /\ pcs[peer].transceivers[2].kind = "video"

C16_Witness ==
    /\ peer = 2
    /\ pcs[1].closed
    /\ pcs[2].negotiated
    /\ pcs[2].transceivers[1].track = "track2"
    /\ offersSent >= 3
    /\ Len(pcs[2].transceivers) = 2

\* C17: when a recovery is requested with the attempt counter at its
\* maximum, the session is torn down and, once stop() is through, the
\* transport state is 'error'.
C17_ExhaustedIsError ==
    "exhausted-stopped" \in negOps =>
        /\ peer = Null
        /\ state = "error"

\* C18: a hard recovery closes the old peer connection only in a step in
\* which the new one has been negotiated; if negotiating the new one fails,
\* the old one is not closed.
C18_OldClosedOnlyAfterNegotiated ==
    "old-closed" \in negOps => "negotiated" \in negOps

\* the recoveries whose negotiation is awaiting its fetch
InProgress(fs) == {i \in 1..Len(fs) : fs[i].mode # "connect"}

\* C19: at most one recovery is in progress at any time, a recovery request
\* made while the single-flight flag is set changes neither the attempt
\* counter nor the peer connections, and the attempt counter never exceeds
\* the maximum.
C19_SingleFlight ==
    [][/\ Cardinality(InProgress(fetches')) <= 1
       /\ reconnectionAttempts' <= maxReconnectionAttempts
       /\ "dropped" \in negOps' =>
              /\ reconnectionAttempts' = reconnectionAttempts
              /\ pcs' = pcs
              /\ peer' = peer
              /\ fetches' = fetches]_vars

\* C20: the first offer of a session carries no connection id (null, or
\* undefined, which the JSON body leaves out), and an offer sent after the
\* session's first answer carries the id of that answer.
C20_OffersEchoFirstId ==
    []["offer" \in negOps' =>
          /\ ~offered => sent' \in {Null, Undefined}
          /\ (offered /\ firstResponse # Null) => sent' = firstResponse]_vars

\* what the transport is to hand to the application's message handler: a
\* message labelled 'rtvi-ai' that is no signalling message of the data
\* channel; the call object of Daily carries no signalling messages
Forwardable(m) ==
    /\ m.json = "object"
    /\ m.label = "rtvi-ai"
    /\ transport = "smallwebrtc" => m.type # "signalling"

RECURSIVE Section(_, _, _, _)
Section(q, kind, inside, i) ==
    IF i = 0 THEN <<>>
    ELSE IF IsKind(q, kind, i) = inside
         THEN Append(Section(q, kind, inside, i - 1), q[i])
         ELSE Section(q, kind, inside, i - 1)

\* the payload types of the kind's section whose rtpmap names the codec
Named(lines, kind, codec) ==
    {lines[i].pt : i \in {j \in 1..Len(lines) :
                            /\ IsKind(lines, kind, j)
                            /\ MatchesCodec(lines[j], codec)}}

\* those whose fmtp is an apt that refers to one of them
Retransmitting(lines, kind, codec) ==
    {lines[i].pt : i \in {j \in 1..Len(lines) :
                            /\ IsKind(lines, kind, j)
                            /\ lines[j].tag = "fmtp"
                            /\ lines[j].apt \in Named(lines, kind, codec)}}

Kept(lines, kind, codec) ==
    Named(lines, kind, codec) \cup Retransmitting(lines, kind, codec)

\* C22: the rewritten m= line of the kind lists exactly the payload types
\* whose rtpmap names the codec and the retransmission payload types whose
\* fmtp apt refers to one of them; of the rtpmap, fmtp and rtcp-fb lines of
\* the kind's section exactly those of these payload types remain, and the
\* lines outside the kind's sections are unchanged.
C22_FilterKeepsCodecAndRtx ==
    sdp # <<>> =>
        LET kept == Kept(realSdp, sdpKind, sdpCodec)
            was == Section(realSdp, sdpKind, TRUE, Len(realSdp))
            is == Section(sdp, sdpKind, TRUE, Len(sdp))
        IN  /\ \A i \in 1..Len(sdp) :
                  (sdp[i].tag = "m" /\ sdp[i].kind = sdpKind) =>
                      {sdp[i].pts[j] : j \in 1..Len(sdp[i].pts)} = kept
            /\ SelectSeq(is, LAMBDA l : l.tag # "m")
                   = SelectSeq(was, LAMBDA l : l.tag # "m"
                                      /\ (MatchesSkip(l) => l.pt \in kept))
            /\ Section(sdp, sdpKind, FALSE, Len(sdp))
                   = Section(realSdp, sdpKind, FALSE, Len(realSdp))

\* C23: in a meeting the client-ready message is sent once, for the first
\* remote 'track-started' event that the transport awaits; no later
\* 'track-started' event, of whatever participant, sends it again.
C23_ClientReadyOnce == readySent <= 1

\* C24: initialize() is idempotent: however often it was called, the
\* transport dispatches an inbound message or event to the application
\* once, as it does after a single call.
C24_InitializeIdempotent ==
    /\ (dailyOp = "app-message" /\ Forwardable(received)) => forwarded = 1
    /\ dailyOp \in {"local-track", "remote-track"} => dispatched = 1

\* the step is the invocation of connect()
ConnectInvoked ==
    /\ connectCall = "idle"
    /\ connectCall' # "idle" \/ <<"connect", "resolved">> \in settledCalls'

\* C25: connect() invoked with a signal already aborted returns without
\* changing the state, opening a connection or invoking a callback; and a
\* connect() whose signal has been aborted never moves the state to
\* 'connected' nor invokes onConnected.
C25_ConnectHonoursAbort ==
    [][/\ (ConnectInvoked /\ aborted') =>
             /\ state' = state
             /\ connectCall' = "idle"
             /\ pc' = pc /\ channel' = channel /\ mmConnected' = mmConnected
             /\ called' = <<>>
       /\ (aborted /\ aborted') =>
             /\ state' = "connected" => state = "connected"
             /\ \A i \in 1..Len(called') : called'[i] # "onConnected"]_vars

\* C26: the state becomes 'ready' only from 'connected', never from
\* 'connecting', 'disconnecting', 'disconnected' or 'error', and it never
\* moves from 'ready' back to 'connected', however the remote side's
\* messages fall between connect() and disconnect().
C26_ReadyOnlyFromConnected ==
    [][/\ (state' = "ready" /\ state # "ready") => state = "connected"
       /\ state = "ready" => state' # "connected"]_vars

\* the step emits the event e
Emits(e) == \E i \in 1..Len(emitted') : emitted'[i] = e

\* C27: whenever a connection opens, the first or a later one, the count of
\* reconnect attempts is back at 0, so that the next drop is retried after
\* the base interval with the whole budget.
C27_OpenResetsAttempts ==
    [][Emits("open") => reconnectAttempts' = 0]_vars

\* C28: a drop emits 'reconnecting' only when attempts remain and a
\* reconnect is scheduled; a drop that finds the budget used up emits
\* 'reconnect-failed' and no 'reconnecting'.
C28_ReconnectingOnlyWhenScheduled ==
    [][/\ Emits("reconnecting") =>
             /\ reconnectAttempts < allowedReconnectAttempts
             /\ reconnectTimeoutID' # Null
       /\ Emits("reconnect-failed") => ~Emits("reconnecting")]_vars

\* C29: scheduling a reconnect is idempotent: at most one reconnect timer is
\* pending at any time, and a retry requested while a timer is pending arms
\* no second timer and leaves the attempt count as it was.  A retry is
\* requested by every handler that announces 'reconnecting'; close() clears
\* the pending timer before it requests one, every other handler requests
\* it with the timer as it found it.
C29_ScheduleIdempotent ==
    [][/\ Cardinality(reconnectTimers') <= 1
       /\ (/\ Emits("reconnecting")
           /\ op' # "close"
           /\ reconnectTimeoutID # Null) =>
              /\ reconnectTimers' = reconnectTimers
              /\ reconnectTimeoutID' = reconnectTimeoutID
              /\ reconnectAttempts' = reconnectAttempts]_vars

\* two sockets have opened and are gone, the later one dropped with
\* 'reconnecting' announced, and the one timer armed since init() is pending
C29_Witness ==
    /\ reconnectTimeoutID # Null
    /\ reconnectTimers = {reconnectTimeoutID}
    /\ reconnectAttempts = 1
    /\ reconnectAttempts < allowedReconnectAttempts
    /\ ws = Null
    /\ op # "close"
    /\ \E i \in 1..Len(emitted) : emitted[i] = "reconnecting"
    /\ \A s \in SockIds : /\ socks[s].initialConnectionOk
                            /\ socks[s].readyState \in {"CLOSING", "CLOSED"}

\* C30: 'keep-alive' is emitted only by a keep-alive tick that finds the
\* channel open, the connection not stale (a message received within the
\* keep-alive timeout) and nothing sent within the last keep-alive interval;
\* a tick that closes the socket for staleness emits no 'keep-alive'
C30_KeepAliveOnlyWhenIdle ==
    [][/\ Emits("keep-alive") =>
              /\ op' = "keep-alive-tick"
              /\ ws # Null
              /\ socks[ws].readyState = "OPEN"
              /\ ws' = ws
              /\ now - lastMsgRecvTime <= keepAliveTimeout
              /\ \/ lastMsgSendTime = Undefined
                 \/ now - lastMsgSendTime >= keepAliveInterval
       /\ (/\ op' = "keep-alive-tick"
           /\ ws # Null
           /\ ws' = Null) => ~Emits("keep-alive")]_vars

\* a tick has emitted 'keep-alive' on a channel whose last send is older
\* than the keep-alive interval
C30_Witness ==
    /\ op = "keep-alive-tick"
    /\ emitted = <<"keep-alive">>
    /\ lastMsgSendTime # Undefined
    /\ now - lastMsgSendTime >= keepAliveInterval
    /\ ws # Null

\* a hard recovery is awaiting the answer to its offer
HardRecoveryPending ==
    \E i \in 1..Len(fetches) : fetches[i].mode = "hard"

\* C31: a negotiation that throws arms the fixed-delay retry, and the retry,
\* when its delay has run out with attempts left and the transport not
\* stopped, is a hard recovery: it counts an attempt and creates a new peer
\* connection, unless a hard recovery is already under way; it is never
\* dropped in favour of a soft renegotiation
C31_FailureLeadsToHardRecovery ==
    [][/\ "failed" \in negOps' => retryTimers' = retryTimers + 1
       /\ (/\ retryTimers' < retryTimers
           /\ peer # Null
           /\ reconnectionAttempts < maxReconnectionAttempts
           /\ ~HardRecoveryPending) =>
              /\ "recovery" \in negOps'
              /\ Len(pcs') = Len(pcs) + 1
              /\ peer' = Len(pcs')]_vars

\* C32: a socket that had opened drops while reconnect attempts remain: the
\* transport's state is not moved to 'error' and no disconnect() is started
\* by it
C32_TransientDropRecovered ==
    [][(/\ Dropped
        /\ reconnectAttempts < allowedReconnectAttempts
        /\ ~disconnected
        /\ state \in {"connected", "ready"}) =>
           /\ state' = state
           /\ disconnectCall' = disconnectCall]_vars

\* C33: the connection-timeout timer of an attempt that fires while the
\* attempt's socket is still connecting closes that socket (so that it can
\* no longer open and become the channel's connection, and its connect()
\* promise is rejected by its close event)
C33_TimedOutAttemptIsClosed ==
    [][\A s \in SockIds :
          (/\ op' = "connection-timeout"
           /\ connTimers = {s}
           /\ connTimers' = {}
           /\ socks[s].readyState = "CONNECTING") =>
              socks'[s].readyState \in {"CLOSING", "CLOSED"}]_vars

\* the attempt s is in flight and no later connect() has replaced it
LatestInFlight(s) ==
    /\ socks[s].readyState = "CONNECTING"
    /\ \A u \in SockIds : u > s => socks[u].readyState = "NONE"

\* C34: a connection-timeout timer fires only for the attempt it was armed
\* for, while that attempt is in flight and not replaced: it never fires on
\* an open connection, nor after its attempt has opened, failed or been
\* replaced by a later connect()
C34_TimeoutOnlyForItsAttempt ==
    [][op' = "connection-timeout" =>
          /\ ws = Null
          /\ \A s \in connTimers \ connTimers' : LatestInFlight(s)]_vars

\* C35: once disconnect() has completed, and until the application calls
\* connect() again, no step creates a peer connection or sends an offer
C35_QuietAfterDisconnect ==
    [][(/\ state = "disconnected"
        /\ peer = Null
        /\ disconnectCall = "idle"
        /\ stops = <<>>
        /\ state' # "connecting") =>
           /\ Len(pcs') = Len(pcs)
           /\ offersSent' = offersSent
           /\ peer' = Null]_vars

\* C36: while the current data channel is open exactly one ping interval is
\* set and it sends on the current data channel, and no ping interval is set
\* for a closed data channel once its 'close' event has been delivered
C36_OnePingOnCurrentChannel ==
    /\ (peer # Null /\ channel = "open") => pings = {peer}
    /\ \A i \in pings : pcs[i].closed => i \in dcClosing

\* C37: at any time at most one audio processor of the recorder is live, and
\* the recording flag is set only while the recorder has a processor, also
\* when begin(), record() and end() calls overlap
C37_OneLiveProcessor ==
    /\ Cardinality(msrLive) <= 1
    /\ msrRecording => msrProcessor # Null

\* C38: the audio of one bot turn is buffered under one utterance id, and the
\* audio of a later turn, whether the earlier one ended with turnComplete or
\* with interrupted, under a strictly larger id
C38_OneIdPerTurn ==
    \A i, j \in 1..Len(buffered) :
        /\ buffered[i].turn = buffered[j].turn
              => buffered[i].id = buffered[j].id
        /\ buffered[i].turn < buffered[j].turn
              => buffered[i].id < buffered[j].id

\* the bytes of the buffers, one after the other
RECURSIVE Joined(_)
Joined(bs) == IF bs = <<>> THEN <<>> ELSE Head(bs) \o Joined(Tail(bs))

\* C39: the audio handed to the playback buffer for a message is the
\* concatenation, in order, of all the inline audio parts of its model turn
C39_AllPartsBuffered ==
    \A i \in 1..Len(buffered) :
        buffered[i].audio = Joined(buffered[i].parts)

\* the buffers of the raw-audio-batch messages among the first n messages,
\* decoded, in the order they were sent
RECURSIVE SentBuffers(_)
SentBuffers(n) ==
    IF n = 0 THEN <<>>
    ELSE SentBuffers(n - 1)
         \o [i \in 1..Len(appMessages[n].base64AudioBatch) |->
                appMessages[n].base64AudioBatch[i].base64]

\* the flush of C40: every message before client-ready is a batch of at most
\* batchSize buffers, and the batches hold the buffers captured until then,
\* each once and in the order of capture
C40_FlushedInOrder ==
    \A r \in 1..Len(appMessages) :
        appMessages[r].type = "client-ready" =>
            /\ \A i \in 1..(r - 1) :
                  /\ appMessages[i].type = "raw-audio-batch"
                  /\ Len(appMessages[i].base64AudioBatch) \in 1..batchSize
            /\ \E k \in 0..qCaptured :
                  /\ SentBuffers(r - 1) = [i \in 1..k |-> i]
                  /\ audioQueue = [i \in 1..(qCaptured - k) |-> k + i]

\* C40: when the bot becomes ready the queued buffers are sent, each once and
\* in capture order, in batches of at most 10 before client-ready, and no
\* captured buffer is left in the queue once the transport is ready
C40_NothingQueuedWhenReady ==
    /\ C40_FlushedInOrder
    /\ qState = "ready" => audioQueue = <<>>

====
